---- MODULE Spec2Model ----
(***************************************************************************)
(* A model of the transmux MPEG-2 transport stream parsing pipeline:       *)
(*   internal/byte_queue.rs  ByteQueue                                     *)
(*   mp2t/ts_parser.rs       TsParser (framer) and parse_packet (decoder)  *)
(*   mp2t/pid_control.rs     PidControl (continuity counter)               *)
(*   mp2t/psi_parser.rs      PsiParser (PSI section reassembly)            *)
(* Byte slices are sequences of integers 0..255.  Indices in the source    *)
(* are 0-based; sequences here are 1-based.                                *)
(***************************************************************************)
EXTENDS Integers, Sequences, FiniteSets, TLC

VARIABLES
  \* ---- the byte stream the caller feeds to the framer
  segs,          \* the kinds of the segments the stream is made of
  tail,          \* trailing bytes after the last segment
  pushed,        \* number of stream bytes already handed to TsParser::parse
  pushes,        \* number of TsParser::parse calls made
  \* ---- TsParser
  byte_queue,    \* ByteQueue {buf, offset, head} and the Vec's capacity
  synchronized,  \* TsParser::synchronized
  stats,         \* Context::stats
  delivered,     \* the calls made to TsParser::handler, in order
  panicked,      \* an assert! failed inside the running call
  last_sync,     \* observation of the latest TsParser::synchronize call
  last_bad,      \* observation of the latest failed parse_packet round
  \* ---- PidControl
  continuity_counter, \* PidControl::continuity_counter (Option<u8>)
  pid_in,        \* the packets given to PidControl::parse_pkt, in order
  pid_out,       \* the events PidControl gave to its handler, in order
  \* ---- PsiParser
  psi_input,     \* the payload bytes that are being fed, split into packets
  psi_splits,    \* the payload lengths of the packets fed so far
  data,          \* PsiParser::data
  started,       \* PsiParser::started
  sections,      \* the slices given to PsiHandler::on_psi, in order
  psi_panicked,  \* a slice index was out of range inside PsiParser::parse
  psi_in,        \* the packets given to PsiParser::on_pkt, in order
  psi_start_at,  \* index in psi_in of the latest payload_start packet
  section_spans, \* per delivered section: the packets its bytes came from
  \* ---- PatParser, Context::events and Demult
  pat_current,   \* PatParser::current (Option<Pat>)
  events,        \* Context::events
  pids,          \* Demult::pids: the handler installed on each mapped pid
  programs,      \* Demult::programs
  demux_ops,     \* number of operations performed on the demultiplexer
  demux_last,    \* observation of the latest operation
  \* ---- ByteQueue driven by its caller
  queue_written, \* all the bytes given to ByteQueue::write, in order
  queue_last,    \* observation of the latest call on the queue
  \* ---- parse_packet and PmtParser::parse called on their own
  decode_input,  \* the 188 bytes given to parse_packet
  decode_result, \* <<>>, or <<r>> once parse_packet has returned r
  pmt_input,     \* the stream entries of the body given to PmtParser::parse
  pmt_result,    \* <<>>, or <<r>> once PmtParser::parse has returned r
  \* ---- Demuxer::parse reading a byte stream
  pipe_input,    \* the bytes that the input of Demuxer::parse holds
  pipe_caused,   \* the events pushed on Context::events, each with the
                 \* stream position of the packet that caused it
  pipe_returned, \* the events returned by Demuxer::parse, in order
  pipe_eof       \* the latest call of Demuxer::parse returned Ok(None)

vars == <<segs, tail, pushed, pushes, byte_queue, synchronized, stats,
          delivered, panicked, last_sync, last_bad,
          continuity_counter, pid_in, pid_out,
          psi_input, psi_splits, data, started, sections, psi_panicked,
          psi_in, psi_start_at, section_spans,
          pat_current, events, pids, programs, demux_ops, demux_last,
          queue_written, queue_last,
          decode_input, decode_result, pmt_input, pmt_result,
          pipe_input, pipe_caused, pipe_returned, pipe_eof>>

framerVars == <<segs, tail, pushed, pushes, byte_queue, synchronized,
                delivered, panicked, last_sync, last_bad>>
pidVars == <<continuity_counter, pid_in, pid_out>>
psiVars == <<psi_input, psi_splits, data, started, sections, psi_panicked,
          psi_in, psi_start_at, section_spans>>
demuxVars == <<pat_current, events, pids, programs, demux_ops, demux_last>>
queueVars == <<queue_written, queue_last>>
callVars == <<decode_input, decode_result, pmt_input, pmt_result>>
pipeVars == <<pipe_input, pipe_caused, pipe_returned, pipe_eof>>

-----------------------------------------------------------------------------
(* Bounds of the model *)

\* the largest number of segments (packets or garbage runs) in a stream
MaxSegs == 3
\* the largest number of TsParser::parse calls on one stream
MaxPushes == 3
\* the largest number of packets given to PidControl::parse_pkt
MaxPkts == 3
MaxPidPkts == 4
MaxDemuxOps == 5
MaxQueueOps == 5
MaxStreams == 3
MaxPipePkts == 3

-----------------------------------------------------------------------------
(* Program constants *)

PACKET_SIZE == 188
HEADER_SYNC_WORD == 71
MAX_SECTION_LEN == 1021

-----------------------------------------------------------------------------
(* Helpers on sequences and bits *)

Min(a, b) == IF a < b THEN a ELSE b
Max(a, b) == IF a > b THEN a ELSE b

\* bit k (0 = least significant) of the byte b
Bit(b, k) == (b \div (2 ^ k)) % 2 = 1

\* n copies of the byte b
Fill(n, b) == [i \in 1 .. n |-> b]

RECURSIVE Concat(_)
Concat(ss) == IF ss = <<>> THEN <<>> ELSE Head(ss) \o Concat(Tail(ss))

\* Default::default() of Stats
ZeroStats ==
  [unsynchronized_bytes |-> 0, malformed_ts_packets |-> 0,
   duplicate_ts_packets |-> 0, ignored_ts_packets |-> 0,
   continuity_counter_errors |-> 0, invalid_psi |-> 0, invalid_pmt |-> 0,
   psi_crc_errors |-> 0, skipped_unstarted_psi_pkts |-> 0]

-----------------------------------------------------------------------------
(* ByteQueue: internal/byte_queue.rs *)

\* ByteQueue::new
NewByteQueue == [buf |-> <<>>, offset |-> 0, head |-> 0, cap |-> 0]

\* Deref: the unread bytes, &self.buf[self.offset..]
View(q) == SubSeq(q.buf, q.offset + 1, Len(q.buf))

\* len() of the dereferenced slice
QLen(q) == Len(q.buf) - q.offset

\* q[i], i counted from 0
QAt(q, i) == q.buf[q.offset + i + 1]

\* Vec::extend_from_slice: the capacity after appending n bytes to a Vec of
\* length len (amortized doubling, at least 8 bytes, as std's RawVec grows)
GrowCap(cap, len, n) ==
  IF len + n <= cap THEN cap ELSE Max(Max(2 * cap, len + n), 8)

\* write that, when it compacts, moves the unread bytes one position short
Write_compact_short(q, bytes) ==
  LET required_cap == Len(q.buf) + Len(bytes)
      available == Len(q.buf) - q.offset
      compact == required_cap < q.cap /\ available >= Len(bytes)
      buf1 == IF compact THEN SubSeq(q.buf, q.offset + 2, Len(q.buf))
              ELSE q.buf
      off1 == IF compact THEN 0 ELSE q.offset
  IN [q EXCEPT !.buf = buf1 \o bytes,
               !.offset = off1,
               !.cap = GrowCap(q.cap, Len(buf1), Len(bytes))]

\* ByteQueue::write
Write(q, bytes) ==
  LET required_cap == Len(q.buf) + Len(bytes)
      available == Len(q.buf) - q.offset
      compact == required_cap < q.cap /\ available >= Len(bytes)
      buf1 == IF compact THEN SubSeq(q.buf, q.offset + 1, Len(q.buf))
              ELSE q.buf
      off1 == IF compact THEN 0 ELSE q.offset
  IN [q EXCEPT !.buf = buf1 \o bytes,
               !.offset = off1,
               !.cap = GrowCap(q.cap, Len(buf1), Len(bytes))]

\* the assert! of ByteQueue::pop
PopAllowed(q, n) == n < Len(q.buf) - q.offset

\* ByteQueue::pop, past its assert!
Pop(q, n) == [q EXCEPT !.offset = @ + n, !.head = @ + n]

\* ByteQueue::pop_all is called by TsParser::synchronize but is not defined
\* in byte_queue.rs; modelled from the specification: "clear the queue".
PopAll(q) == [q EXCEPT !.offset = Len(q.buf), !.head = @ + QLen(q)]

\* the calls the caller of a ByteQueue makes: the slices it writes and the
\* counts it pops
QueueData == {<<1>>, <<2, 3>>, <<4, 5, 6>>}
QueuePops == 0 .. 4

\* a call of ByteQueue::write
QueueWrite(bytes) ==
  /\ ~panicked
  /\ queue_last.count < MaxQueueOps
  /\ byte_queue' = Write(byte_queue, bytes)
  /\ queue_written' = queue_written \o bytes
  /\ queue_last' = [op |-> "write", n |-> Len(bytes),
                    count |-> queue_last.count + 1]
  /\ UNCHANGED <<segs, tail, pushed, pushes, synchronized, delivered,
                 panicked, last_sync, last_bad, stats>>
  /\ UNCHANGED pidVars
  /\ UNCHANGED psiVars
  /\ UNCHANGED demuxVars
  /\ UNCHANGED callVars
  /\ UNCHANGED pipeVars

\* a call of ByteQueue::pop: the assert! fails or the offsets advance
QueuePop(n) ==
  /\ ~panicked
  /\ queue_last.count < MaxQueueOps
  /\ IF PopAllowed(byte_queue, n)
     THEN byte_queue' = Pop(byte_queue, n) /\ panicked' = FALSE
     ELSE byte_queue' = byte_queue /\ panicked' = TRUE
  /\ queue_last' = [op |-> "pop", n |-> n, count |-> queue_last.count + 1]
  /\ UNCHANGED <<segs, tail, pushed, pushes, synchronized, delivered,
                 last_sync, last_bad, stats, queue_written>>
  /\ UNCHANGED pidVars
  /\ UNCHANGED psiVars
  /\ UNCHANGED demuxVars
  /\ UNCHANGED callVars
  /\ UNCHANGED pipeVars

\* no call has been made on the queue
QueueInit ==
  /\ queue_written = <<>>
  /\ queue_last = [op |-> "new", n |-> 0, count |-> 0]

-----------------------------------------------------------------------------
(* parse_packet: mp2t/ts_parser.rs *)

NoPacket == [some |-> FALSE]

\* parse_packet without the test of data[0]
parse_packet_any_first_byte(raw) ==
  IF FALSE THEN NoPacket
  ELSE
    LET payload_start == Bit(raw[2], 6)
        pid == (raw[2] % 32) * 256 + raw[3]
        adaptation_field_control == (raw[4] \div 16) % 4
        cc == raw[4] % 16
        has_adaptation_field == (adaptation_field_control \div 2) % 2 = 1
        has_payload == adaptation_field_control % 2 = 1
        base == [some |-> TRUE, pos |-> 0, raw_data |-> raw, pid |-> pid,
                 continuity_counter |-> cc, payload_start |-> payload_start,
                 has_pcr |-> FALSE, discontinuity |-> FALSE,
                 random_access |-> FALSE, payload_off |-> 4,
                 payload_len |-> PACKET_SIZE - 4]
        adaptation_field_len == raw[5]
        remaining == PACKET_SIZE - 5
    IN IF ~has_adaptation_field THEN base
       ELSE IF (~has_payload /\ adaptation_field_len # remaining)
               \/ (has_payload /\ adaptation_field_len >= remaining)
       THEN NoPacket
       ELSE IF adaptation_field_len = 0
       THEN [base EXCEPT !.payload_off = 5, !.payload_len = remaining]
       ELSE [base EXCEPT !.discontinuity = Bit(raw[6], 7),
                         !.random_access = Bit(raw[6], 6),
                         !.has_pcr = Bit(raw[6], 4),
                         !.payload_off = 5 + adaptation_field_len,
                         !.payload_len = remaining - adaptation_field_len]

\* parse_packet that lets the adaptation field of a packet with a payload
\* take up the whole packet
parse_packet_full_field_with_payload(raw) ==
  IF raw[1] # HEADER_SYNC_WORD THEN NoPacket
  ELSE
    LET payload_start == Bit(raw[2], 6)
        pid == (raw[2] % 32) * 256 + raw[3]
        adaptation_field_control == (raw[4] \div 16) % 4
        cc == raw[4] % 16
        has_adaptation_field == (adaptation_field_control \div 2) % 2 = 1
        has_payload == adaptation_field_control % 2 = 1
        base == [some |-> TRUE, pos |-> 0, raw_data |-> raw, pid |-> pid,
                 continuity_counter |-> cc, payload_start |-> payload_start,
                 has_pcr |-> FALSE, discontinuity |-> FALSE,
                 random_access |-> FALSE, payload_off |-> 4,
                 payload_len |-> PACKET_SIZE - 4]
        adaptation_field_len == raw[5]
        remaining == PACKET_SIZE - 5
    IN IF ~has_adaptation_field THEN base
       ELSE IF (~has_payload /\ adaptation_field_len # remaining)
               \/ (has_payload /\ adaptation_field_len > remaining)
       THEN NoPacket
       ELSE IF adaptation_field_len = 0
       THEN [base EXCEPT !.payload_off = 5, !.payload_len = remaining]
       ELSE [base EXCEPT !.discontinuity = Bit(raw[6], 7),
                         !.random_access = Bit(raw[6], 6),
                         !.has_pcr = Bit(raw[6], 4),
                         !.payload_off = 5 + adaptation_field_len,
                         !.payload_len = remaining - adaptation_field_len]

\* parse_packet(data), data a slice of PACKET_SIZE bytes.  payload is the
\* sub-slice of raw_data given by its offset and length.  The value of the
\* PCR is not modelled, only whether one was read.
parse_packet(raw) ==
  IF raw[1] # HEADER_SYNC_WORD THEN NoPacket
  ELSE
    LET payload_start == Bit(raw[2], 6)
        pid == (raw[2] % 32) * 256 + raw[3]
        adaptation_field_control == (raw[4] \div 16) % 4
        cc == raw[4] % 16
        has_adaptation_field == (adaptation_field_control \div 2) % 2 = 1
        has_payload == adaptation_field_control % 2 = 1
        base == [some |-> TRUE, pos |-> 0, raw_data |-> raw, pid |-> pid,
                 continuity_counter |-> cc, payload_start |-> payload_start,
                 has_pcr |-> FALSE, discontinuity |-> FALSE,
                 random_access |-> FALSE, payload_off |-> 4,
                 payload_len |-> PACKET_SIZE - 4]
        adaptation_field_len == raw[5]
        remaining == PACKET_SIZE - 5
    IN IF ~has_adaptation_field THEN base
       ELSE IF (~has_payload /\ adaptation_field_len # remaining)
               \/ (has_payload /\ adaptation_field_len >= remaining)
       THEN NoPacket
       ELSE IF adaptation_field_len = 0
       THEN [base EXCEPT !.payload_off = 5, !.payload_len = remaining]
       ELSE [base EXCEPT !.discontinuity = Bit(raw[6], 7),
                         !.random_access = Bit(raw[6], 6),
                         !.has_pcr = Bit(raw[6], 4),
                         !.payload_off = 5 + adaptation_field_len,
                         !.payload_len = remaining - adaptation_field_len]

\* the payload bytes of a decoded packet
Payload(pkt) ==
  SubSeq(pkt.raw_data, pkt.payload_off + 1, pkt.payload_off + pkt.payload_len)

\* the packets given to parse_packet on its own: a first byte that is or is
\* not the sync word, pid 0x65, each adaptation_field_control, a
\* continuity_counter, the byte where adaptation_field_len is read (183 is
\* the number of bytes after it) and the byte where the flags are read
DecodeFirstBytes == {HEADER_SYNC_WORD, 0}
DecodeCounters == {0, 5}
DecodeLens == {0, 1, 7, 182, 183, 184, 255}
DecodeFlags == {0, 16, 208}
DecodeInputs ==
  {<<first, 0, 101, 16 * afc + cc, len, flags>> \o Fill(PACKET_SIZE - 6, 255) :
     first \in DecodeFirstBytes, afc \in 0 .. 3, cc \in DecodeCounters,
     len \in DecodeLens, flags \in DecodeFlags}

\* one call of parse_packet
Decode ==
  /\ decode_result = <<>>
  /\ Len(decode_input) = PACKET_SIZE
  /\ decode_result' = <<parse_packet(decode_input)>>
  /\ UNCHANGED <<decode_input, pmt_input, pmt_result, stats>>
  /\ UNCHANGED pipeVars
  /\ UNCHANGED framerVars
  /\ UNCHANGED pidVars
  /\ UNCHANGED psiVars
  /\ UNCHANGED demuxVars
  /\ UNCHANGED queueVars

\* parse_packet is not called
DecodeIdle == decode_input = <<>> /\ decode_result = <<>>

-----------------------------------------------------------------------------
(* The byte streams fed to the framer *)

\* a payload-only packet (adaptation_field_control = 01) on pid 0x65 whose
\* continuity_counter is cc
ValidPkt(cc) == <<71, 0, 101, 16 + cc>> \o Fill(PACKET_SIZE - 4, 255)

\* tests::PKT_NO_PAYLOAD: adaptation field only, filling the whole packet
NoPayloadPkt == <<71, 64, 101, 32, 183, 80>> \o Fill(PACKET_SIZE - 6, 255)

\* PKT_NO_PAYLOAD with data[3] |= 0x10, as the test
\* pkt_error_payload_indicated_but_not_present builds it: does not decode
MalformedPkt == <<71, 64, 101, 48, 183, 80>> \o Fill(PACKET_SIZE - 6, 255)

\* the garbage bytes of tests::sync_middle and tests::resync
Garbage == <<0, 71, 0>>

\* a packet's length of bytes none of which is the sync word
Junk == Fill(PACKET_SIZE, 255)

SegKinds == {"V", "N", "M", "G", "J"}

\* the bytes of the i-th segment of a stream
SegBytes(kind, i) ==
  CASE kind = "V" -> ValidPkt(i % 16)
    [] kind = "N" -> NoPayloadPkt
    [] kind = "M" -> MalformedPkt
    [] kind = "G" -> Garbage
    [] kind = "J" -> Junk

\* the whole stream: its segments, then its tail
StreamOf(ks, tl) == Concat([i \in 1 .. Len(ks) |-> SegBytes(ks[i], i)]) \o tl

Stream == StreamOf(segs, tail)

\* the stream offset at which segment i starts
SegStart(ks, i) == Len(StreamOf(SubSeq(ks, 1, i - 1), <<>>))

Tails == {<<>>, <<71>>}

\* sequences over S of length 1 .. n
SeqsUpTo(S, n) == UNION {[1 .. k -> S] : k \in 1 .. n}

-----------------------------------------------------------------------------
(* TsParser: mp2t/ts_parser.rs.  The parser's state and what it changes     *)
(* during one call travel through the loop as a record.                     *)

\* observation records of rounds that have not happened yet
NoSync == [called |-> FALSE]
NoBad == [called |-> FALSE]

\* TsParser::find_sync_word, the inner loop "for j in 0..4" for the index i
\* of the unread view: is_header ends set unless some idx = i + j *
\* PACKET_SIZE inside the view holds another byte than the sync word (for
\* j = 0 the index is always inside the view)
IsHeader(q, i) ==
  /\ q.buf[q.offset + i + 1] = HEADER_SYNC_WORD
  /\ \A j \in 1 .. 3 :
       LET idx == i + j * PACKET_SIZE
       IN idx >= Len(q.buf) - q.offset
          \/ q.buf[q.offset + idx + 1] = HEADER_SYNC_WORD

\* TsParser::find_sync_word, the outer loop "for i in 0..buf.len()" from the
\* index from on, evaluated a block of indices at a time: the first i whose
\* inner loop ends with is_header set
RECURSIVE ScanFrom(_, _)
ScanFrom(q, from) ==
  IF from >= Len(q.buf) - q.offset THEN [some |-> FALSE, idx |-> 0]
  ELSE LET last == Min(from + 16, Len(q.buf) - q.offset) - 1
           hits == {i \in from .. last : IsHeader(q, i)}
       IN IF hits # {}
          THEN [some |-> TRUE,
                idx |-> CHOOSE i \in hits : \A k \in hits : i <= k]
          ELSE ScanFrom(q, last + 1)

\* TsParser::find_sync_word
find_sync_word(q) == ScanFrom(q, 0)

\* TsParser::synchronize; last_sync records what the call saw and did
synchronize(s) ==
  LET sync_idx == find_sync_word(s.q)
      r == IF sync_idx.some
           THEN LET st1 == [s.stats EXCEPT
                              !.unsynchronized_bytes = @ + sync_idx.idx]
                IN IF PopAllowed(s.q, sync_idx.idx)
                   THEN [s EXCEPT !.stats = st1,
                                  !.q = Pop(s.q, sync_idx.idx),
                                  !.synchronized = TRUE]
                   ELSE [s EXCEPT !.stats = st1, !.synchronized = FALSE,
                                  !.panicked = TRUE]
           ELSE [s EXCEPT !.stats = [s.stats EXCEPT
                                       !.unsynchronized_bytes = @ + QLen(s.q)],
                          !.q = PopAll(s.q),
                          !.synchronized = FALSE]
  IN [r EXCEPT !.last_sync =
        [called |-> TRUE, start |-> s.q.head, len |-> QLen(s.q),
         found |-> sync_idx.some, idx |-> sync_idx.idx,
         unsync_before |-> s.stats.unsynchronized_bytes,
         unsync_after |-> r.stats.unsynchronized_bytes,
         head_after |-> r.q.head, sync_after |-> r.synchronized]]

\* TsParser::parse, the arm Some(packet): the handler is called, then the
\* packet is popped
deliver(s, packet) ==
  LET d1 == Append(s.delivered, [at |-> s.q.head, pkt |-> packet])
  IN IF PopAllowed(s.q, PACKET_SIZE)
     THEN [s EXCEPT !.delivered = d1, !.q = Pop(s.q, PACKET_SIZE)]
     ELSE [s EXCEPT !.delivered = d1, !.panicked = TRUE]

\* a failed round that charges the whole packet to unsynchronized_bytes
malformed_whole_packet(s) ==
  IF PopAllowed(s.q, 1)
  THEN LET st1 == [s.stats EXCEPT !.malformed_ts_packets = @ + 1,
                                  !.unsynchronized_bytes = @ + PACKET_SIZE]
           q1 == Pop(s.q, 1)
       IN [s EXCEPT !.q = q1,
                    !.synchronized = FALSE,
                    !.stats = st1,
                    !.last_bad = [called |-> TRUE,
                                  head_before |-> s.q.head,
                                  head_after |-> q1.head,
                                  len_before |-> QLen(s.q),
                                  len_after |-> QLen(q1),
                                  stats_before |-> s.stats,
                                  stats_after |-> st1,
                                  sync_after |-> FALSE]]
  ELSE [s EXCEPT !.panicked = TRUE]

\* TsParser::parse, the arm None; last_bad records what the round did
malformed(s) ==
  IF PopAllowed(s.q, 1)
  THEN LET st1 == [s.stats EXCEPT !.malformed_ts_packets = @ + 1,
                                  !.unsynchronized_bytes = @ + 1]
           q1 == Pop(s.q, 1)
       IN [s EXCEPT !.q = q1,
                    !.synchronized = FALSE,
                    !.stats = st1,
                    !.last_bad = [called |-> TRUE,
                                  head_before |-> s.q.head,
                                  head_after |-> q1.head,
                                  len_before |-> QLen(s.q),
                                  len_after |-> QLen(q1),
                                  stats_before |-> s.stats,
                                  stats_after |-> st1,
                                  sync_after |-> FALSE]]
  ELSE [s EXCEPT !.panicked = TRUE]

\* TsParser::parse, the while loop
RECURSIVE parse_loop(_)
parse_loop(s) ==
  IF s.panicked \/ QLen(s.q) < PACKET_SIZE THEN s
  ELSE IF ~s.synchronized THEN parse_loop(synchronize(s))
  ELSE LET packet == parse_packet(SubSeq(View(s.q), 1, PACKET_SIZE))
       IN IF packet.some THEN parse_loop(deliver(s, packet))
          ELSE parse_loop(malformed(s))

\* TsParser::parse
parse(s, bytes) == parse_loop([s EXCEPT !.q = Write(s.q, bytes)])

\* the sizes of the slices the caller may pass when rem bytes are left
ChunkSizes(rem) ==
  {n \in {1, PACKET_SIZE - 1, PACKET_SIZE, rem} : n >= 1 /\ n <= rem}

\* one call of TsParser::parse with the next n bytes of the stream
Push(n) ==
  /\ ~panicked
  /\ pushes < MaxPushes
  /\ n >= 1
  /\ pushed + n <= Len(Stream)
  /\ LET s == parse([q |-> byte_queue, synchronized |-> synchronized,
                     stats |-> stats, delivered |-> delivered,
                     panicked |-> FALSE, last_sync |-> last_sync,
                     last_bad |-> last_bad],
                    SubSeq(Stream, pushed + 1, pushed + n))
     IN /\ byte_queue' = s.q
        /\ synchronized' = s.synchronized
        /\ stats' = s.stats
        /\ delivered' = s.delivered
        /\ panicked' = s.panicked
        /\ last_sync' = s.last_sync
        /\ last_bad' = s.last_bad
  /\ pushed' = pushed + n
  /\ pushes' = pushes + 1
  /\ UNCHANGED <<segs, tail>>
  /\ UNCHANGED pidVars
  /\ UNCHANGED psiVars
  /\ UNCHANGED demuxVars
  /\ UNCHANGED queueVars
  /\ UNCHANGED callVars
  /\ UNCHANGED pipeVars

-----------------------------------------------------------------------------
(* PidControl (src/mp2t/pid_control.rs) *)

None == [some |-> FALSE, v |-> 0]
Some(x) == [some |-> TRUE, v |-> x]

\* Event::Reset and Event::TsPacket as the handler sees them
Reset == [kind |-> "Reset"]
TsPacketEvent(pkt) == [kind |-> "TsPacket", pkt |-> pkt]

\* parse_pkt without the early return: a duplicate is passed on
parse_pkt_keeps_duplicate(c, pkt) ==
  IF Len(pkt.payload) > 0
  THEN LET bad == c.continuity_counter.some
                    /\ pkt.continuity_counter
                         # (c.continuity_counter.v + 1) % 16
           dup == bad /\ pkt.continuity_counter = c.continuity_counter.v
       IN IF dup
          THEN [c EXCEPT !.stats.duplicate_ts_packets = @ + 1,
                         !.out = Append(@, TsPacketEvent(pkt))]
          ELSE [continuity_counter |-> Some(pkt.continuity_counter),
                stats |-> IF bad
                          THEN [c.stats EXCEPT
                                  !.continuity_counter_errors = @ + 1]
                          ELSE c.stats,
                out |-> (IF bad THEN Append(c.out, Reset) ELSE c.out)
                          \o <<TsPacketEvent(pkt)>>]
  ELSE [c EXCEPT !.out = Append(@, TsPacketEvent(pkt))]

\* parse_pkt that counts a discontinuity but emits no Reset
parse_pkt_no_reset(c, pkt) ==
  IF Len(pkt.payload) > 0
  THEN LET bad == c.continuity_counter.some
                    /\ pkt.continuity_counter
                         # (c.continuity_counter.v + 1) % 16
           dup == bad /\ pkt.continuity_counter = c.continuity_counter.v
       IN IF dup
          THEN [c EXCEPT !.stats.duplicate_ts_packets = @ + 1]
          ELSE [continuity_counter |-> Some(pkt.continuity_counter),
                stats |-> IF bad
                          THEN [c.stats EXCEPT
                                  !.continuity_counter_errors = @ + 1]
                          ELSE c.stats,
                out |-> Append(c.out, TsPacketEvent(pkt))]
  ELSE [c EXCEPT !.out = Append(@, TsPacketEvent(pkt))]

\* parse_pkt whose expected counter does not wrap at 16
parse_pkt_no_wrap(c, pkt) ==
  IF Len(pkt.payload) > 0
  THEN LET bad == c.continuity_counter.some
                    /\ pkt.continuity_counter # c.continuity_counter.v + 1
           dup == bad /\ pkt.continuity_counter = c.continuity_counter.v
       IN IF dup
          THEN [c EXCEPT !.stats.duplicate_ts_packets = @ + 1]
          ELSE [continuity_counter |-> Some(pkt.continuity_counter),
                stats |-> IF bad
                          THEN [c.stats EXCEPT
                                  !.continuity_counter_errors = @ + 1]
                          ELSE c.stats,
                out |-> (IF bad THEN Append(c.out, Reset) ELSE c.out)
                          \o <<TsPacketEvent(pkt)>>]
  ELSE [c EXCEPT !.out = Append(@, TsPacketEvent(pkt))]

\* parse_pkt that runs the continuity check on empty payloads too
parse_pkt_checks_empty(c, pkt) ==
  LET bad == c.continuity_counter.some
               /\ pkt.continuity_counter # (c.continuity_counter.v + 1) % 16
      dup == bad /\ pkt.continuity_counter = c.continuity_counter.v
  IN IF dup
     THEN [c EXCEPT !.stats.duplicate_ts_packets = @ + 1]
     ELSE [continuity_counter |-> Some(pkt.continuity_counter),
           stats |-> IF bad
                     THEN [c.stats EXCEPT !.continuity_counter_errors = @ + 1]
                     ELSE c.stats,
           out |-> (IF bad THEN Append(c.out, Reset) ELSE c.out)
                     \o <<TsPacketEvent(pkt)>>]

\* PidControl::parse_pkt on the controller c = [continuity_counter, stats,
\* out], out being the events handed to the handler so far
parse_pkt(c, pkt) ==
  IF Len(pkt.payload) > 0
  THEN LET bad == c.continuity_counter.some
                    /\ pkt.continuity_counter
                         # (c.continuity_counter.v + 1) % 16
           dup == bad /\ pkt.continuity_counter = c.continuity_counter.v
       IN IF dup
          THEN [c EXCEPT !.stats.duplicate_ts_packets = @ + 1]
          ELSE [continuity_counter |-> Some(pkt.continuity_counter),
                stats |-> IF bad
                          THEN [c.stats EXCEPT
                                  !.continuity_counter_errors = @ + 1]
                          ELSE c.stats,
                out |-> (IF bad THEN Append(c.out, Reset) ELSE c.out)
                          \o <<TsPacketEvent(pkt)>>]
  ELSE [c EXCEPT !.out = Append(@, TsPacketEvent(pkt))]

\* the packets offered to the controller: the 4-bit counter values around
\* the wrap and one in the middle, with and without payload
CounterValues == {0, 1, 7, 14, 15}
Payloads == {<<>>, <<1, 2, 3>>}
PidPackets ==
  [continuity_counter : CounterValues, payload : Payloads]

\* one call of PidControl::parse_pkt
ParsePkt(pkt) ==
  /\ Len(pid_in) < MaxPidPkts
  /\ LET c == parse_pkt([continuity_counter |-> continuity_counter,
                         stats |-> stats, out |-> pid_out], pkt)
     IN /\ continuity_counter' = c.continuity_counter
        /\ stats' = c.stats
        /\ pid_out' = c.out
  /\ pid_in' = Append(pid_in, pkt)
  /\ UNCHANGED framerVars
  /\ UNCHANGED psiVars
  /\ UNCHANGED demuxVars
  /\ UNCHANGED queueVars
  /\ UNCHANGED callVars
  /\ UNCHANGED pipeVars

-----------------------------------------------------------------------------
(* crc::mpeg2: CRC-32/MPEG-2, polynomial 0x04C11DB7, initial value
   0xFFFFFFFF, no reflection, no final XOR, bytes taken MSB first.  A 32-bit
   value is the set of the positions of its 1 bits. *)

Xor(a, b) == (a \ b) \cup (b \ a)

\* 0x04C11DB7
CrcPoly == {26, 23, 22, 16, 12, 11, 10, 8, 7, 5, 4, 2, 1, 0}

\* 0xFFFFFFFF
CrcInit == 0 .. 31

\* the register shifted left by one bit, the polynomial folded in when a 1
\* falls out
CrcShift(c) ==
  LET shifted == {i + 1 : i \in c \ {31}}
  IN IF 31 \in c THEN Xor(shifted, CrcPoly) ELSE shifted

\* what a byte in the top of the register becomes after eight shifts
CrcTable ==
  [s \in SUBSET (0 .. 7) |->
     CrcShift(CrcShift(CrcShift(CrcShift(
       CrcShift(CrcShift(CrcShift(CrcShift({i + 24 : i \in s}))))))))]

\* the positions of the 1 bits of a byte
BitsOf(byte) == {k \in 0 .. 7 : Bit(byte, k)}

\* one message byte taken into the register, most significant bit first
CrcByte(c, byte) ==
  Xor({i + 8 : i \in c \cap (0 .. 23)},
      CrcTable[Xor({i - 24 : i \in c \cap (24 .. 31)}, BitsOf(byte))])

RECURSIVE CrcOfPrefix(_, _)
\* the register after the first n bytes
CrcOfPrefix(bytes, n) ==
  IF n = 0 THEN CrcInit ELSE CrcByte(CrcOfPrefix(bytes, n - 1), bytes[n])

mpeg2(bytes) == CrcOfPrefix(bytes, Len(bytes))

\* the 32-bit value as its four bytes, most significant first
CrcBytes(c) ==
  [k \in 1 .. 4 |->
     LET lo == 8 * (4 - k)
         B(i) == IF lo + i \in c THEN 1 ELSE 0
     IN B(0) + 2 * B(1) + 4 * B(2) + 8 * B(3) + 16 * B(4) + 32 * B(5)
          + 64 * B(6) + 128 * B(7)]

-----------------------------------------------------------------------------
(* PsiParser (src/mp2t/psi_parser.rs) *)

\* PsiHandler::TABLE_ID of the handler the parser is built with
TABLE_ID == 2

\* parse that starts the buffer afresh with every packet
PsiParser_parse_no_accumulate(p, pkt) ==
  IF ~p.started /\ ~pkt.payload_start
  THEN [ok |-> TRUE,
        p |-> [p EXCEPT !.stats.skipped_unstarted_psi_pkts = @ + 1]]
  ELSE
    LET p1 == IF pkt.payload_start
              THEN [p EXCEPT !.data = <<>>, !.started = TRUE]
              ELSE p
        pointer_field == IF Len(pkt.payload) >= 1 THEN pkt.payload[1] ELSE 0
    IN IF pkt.payload_start /\ Len(pkt.payload) < 1
       THEN [ok |-> FALSE, p |-> p1]
       ELSE IF pkt.payload_start /\ Len(pkt.payload) - 1 < pointer_field
       THEN [ok |-> FALSE, p |-> p1]
       ELSE
         LET pkt_data == IF pkt.payload_start
                         THEN SubSeq(pkt.payload, pointer_field + 2,
                                     Len(pkt.payload))
                         ELSE pkt.payload
             p2 == [p1 EXCEPT !.data = pkt_data]
             psi == p2.data
         IN IF Len(psi) < 3
            THEN [ok |-> TRUE, p |-> p2]
            ELSE IF psi[1] # TABLE_ID
            THEN [ok |-> FALSE, p |-> p2]
            ELSE
              LET section_len == (psi[2] * 256 + psi[3]) % 4096
                  psi_len == section_len + 3
              IN IF section_len > MAX_SECTION_LEN
                 THEN [ok |-> FALSE, p |-> p2]
                 ELSE IF Len(psi) < psi_len
                 THEN [ok |-> TRUE, p |-> p2]
                 ELSE IF mpeg2(SubSeq(psi, 1, psi_len)) # {}
                 THEN [ok |-> FALSE,
                       p |-> [p2 EXCEPT !.stats.psi_crc_errors = @ + 1]]
                 ELSE IF psi_len - 4 < 3
                 THEN [ok |-> TRUE, p |-> [p2 EXCEPT !.panicked = TRUE]]
                 ELSE [ok |-> TRUE,
                       p |-> [p2 EXCEPT
                                !.sections =
                                  Append(@, SubSeq(psi, 4, psi_len - 4)),
                                !.data = <<>>,
                                !.started = FALSE]]

\* parse that takes every complete section for valid
PsiParser_parse_no_crc(p, pkt) ==
  IF ~p.started /\ ~pkt.payload_start
  THEN [ok |-> TRUE,
        p |-> [p EXCEPT !.stats.skipped_unstarted_psi_pkts = @ + 1]]
  ELSE
    LET p1 == IF pkt.payload_start
              THEN [p EXCEPT !.data = <<>>, !.started = TRUE]
              ELSE p
        pointer_field == IF Len(pkt.payload) >= 1 THEN pkt.payload[1] ELSE 0
    IN IF pkt.payload_start /\ Len(pkt.payload) < 1
       THEN [ok |-> FALSE, p |-> p1]
       ELSE IF pkt.payload_start /\ Len(pkt.payload) - 1 < pointer_field
       THEN [ok |-> FALSE, p |-> p1]
       ELSE
         LET pkt_data == IF pkt.payload_start
                         THEN SubSeq(pkt.payload, pointer_field + 2,
                                     Len(pkt.payload))
                         ELSE pkt.payload
             p2 == [p1 EXCEPT !.data = @ \o pkt_data]
             psi == p2.data
         IN IF Len(psi) < 3
            THEN [ok |-> TRUE, p |-> p2]
            ELSE IF psi[1] # TABLE_ID
            THEN [ok |-> FALSE, p |-> p2]
            ELSE
              LET section_len == (psi[2] * 256 + psi[3]) % 4096
                  psi_len == section_len + 3
              IN IF section_len > MAX_SECTION_LEN
                 THEN [ok |-> FALSE, p |-> p2]
                 ELSE IF Len(psi) < psi_len
                 THEN [ok |-> TRUE, p |-> p2]
                 ELSE IF FALSE
                 THEN [ok |-> FALSE,
                       p |-> [p2 EXCEPT !.stats.psi_crc_errors = @ + 1]]
                 ELSE IF psi_len - 4 < 3
                 THEN [ok |-> TRUE, p |-> [p2 EXCEPT !.panicked = TRUE]]
                 ELSE [ok |-> TRUE,
                       p |-> [p2 EXCEPT
                                !.sections =
                                  Append(@, SubSeq(psi, 4, psi_len - 4)),
                                !.data = <<>>,
                                !.started = FALSE]]

\* parse that reports a packet met before any payload_start as a failure
PsiParser_parse_skip_fails(p, pkt) ==
  IF ~p.started /\ ~pkt.payload_start
  THEN [ok |-> FALSE,
        p |-> [p EXCEPT !.stats.skipped_unstarted_psi_pkts = @ + 1]]
  ELSE
    LET p1 == IF pkt.payload_start
              THEN [p EXCEPT !.data = <<>>, !.started = TRUE]
              ELSE p
        pointer_field == IF Len(pkt.payload) >= 1 THEN pkt.payload[1] ELSE 0
    IN IF pkt.payload_start /\ Len(pkt.payload) < 1
       THEN [ok |-> FALSE, p |-> p1]
       ELSE IF pkt.payload_start /\ Len(pkt.payload) - 1 < pointer_field
       THEN [ok |-> FALSE, p |-> p1]
       ELSE
         LET pkt_data == IF pkt.payload_start
                         THEN SubSeq(pkt.payload, pointer_field + 2,
                                     Len(pkt.payload))
                         ELSE pkt.payload
             p2 == [p1 EXCEPT !.data = @ \o pkt_data]
             psi == p2.data
         IN IF Len(psi) < 3
            THEN [ok |-> TRUE, p |-> p2]
            ELSE IF psi[1] # TABLE_ID
            THEN [ok |-> FALSE, p |-> p2]
            ELSE
              LET section_len == (psi[2] * 256 + psi[3]) % 4096
                  psi_len == section_len + 3
              IN IF section_len > MAX_SECTION_LEN
                 THEN [ok |-> FALSE, p |-> p2]
                 ELSE IF Len(psi) < psi_len
                 THEN [ok |-> TRUE, p |-> p2]
                 ELSE IF mpeg2(SubSeq(psi, 1, psi_len)) # {}
                 THEN [ok |-> FALSE,
                       p |-> [p2 EXCEPT !.stats.psi_crc_errors = @ + 1]]
                 ELSE IF psi_len - 4 < 3
                 THEN [ok |-> TRUE, p |-> [p2 EXCEPT !.panicked = TRUE]]
                 ELSE [ok |-> TRUE,
                       p |-> [p2 EXCEPT
                                !.sections =
                                  Append(@, SubSeq(psi, 4, psi_len - 4)),
                                !.data = <<>>,
                                !.started = FALSE]]

\* PsiParser<H>::parse with H::TABLE_ID = table_id on the parser p = [data,
\* started, stats, sections, panicked]; ok is the bool it returns
PsiParser_parse_for(table_id, p, pkt) ==
  IF ~p.started /\ ~pkt.payload_start
  THEN [ok |-> TRUE,
        p |-> [p EXCEPT !.stats.skipped_unstarted_psi_pkts = @ + 1]]
  ELSE
    LET p1 == IF pkt.payload_start
              THEN [p EXCEPT !.data = <<>>, !.started = TRUE]
              ELSE p
        pointer_field == IF Len(pkt.payload) >= 1 THEN pkt.payload[1] ELSE 0
    IN IF pkt.payload_start /\ Len(pkt.payload) < 1
       THEN [ok |-> FALSE, p |-> p1]
       ELSE IF pkt.payload_start /\ Len(pkt.payload) - 1 < pointer_field
       THEN [ok |-> FALSE, p |-> p1]
       ELSE
         LET pkt_data == IF pkt.payload_start
                         THEN SubSeq(pkt.payload, pointer_field + 2,
                                     Len(pkt.payload))
                         ELSE pkt.payload
             p2 == [p1 EXCEPT !.data = @ \o pkt_data]
             psi == p2.data
         IN IF Len(psi) < 3
            THEN [ok |-> TRUE, p |-> p2]
            ELSE IF psi[1] # table_id
            THEN [ok |-> FALSE, p |-> p2]
            ELSE
              LET section_len == (psi[2] * 256 + psi[3]) % 4096
                  psi_len == section_len + 3
              IN IF section_len > MAX_SECTION_LEN
                 THEN [ok |-> FALSE, p |-> p2]
                 ELSE IF Len(psi) < psi_len
                 THEN [ok |-> TRUE, p |-> p2]
                 ELSE IF mpeg2(SubSeq(psi, 1, psi_len)) # {}
                 THEN [ok |-> FALSE,
                       p |-> [p2 EXCEPT !.stats.psi_crc_errors = @ + 1]]
                 ELSE IF psi_len - 4 < 3
                 THEN [ok |-> TRUE, p |-> [p2 EXCEPT !.panicked = TRUE]]
                 ELSE [ok |-> TRUE,
                       p |-> [p2 EXCEPT
                                !.sections =
                                  Append(@, SubSeq(psi, 4, psi_len - 4)),
                                !.data = <<>>,
                                !.started = FALSE]]

\* parse that takes the bytes in front of the pointer_field target as the
\* rest of the section it holds, before it starts the new section
PsiParser_parse_completes_earlier(p, pkt) ==
  IF /\ pkt.payload_start /\ p.started
     /\ Len(pkt.payload) >= 1
     /\ pkt.payload[1] >= 1
     /\ pkt.payload[1] <= Len(pkt.payload) - 1
  THEN PsiParser_parse_for(
         TABLE_ID,
         PsiParser_parse_for(
           TABLE_ID, p,
           [pkt EXCEPT !.payload_start = FALSE,
                       !.payload = SubSeq(pkt.payload, 2, pkt.payload[1] + 1)]).p,
         pkt)
  ELSE PsiParser_parse_for(TABLE_ID, p, pkt)

\* PsiParser::parse of the parser built with the handler of TABLE_ID
PsiParser_parse(p, pkt) == PsiParser_parse_for(TABLE_ID, p, pkt)

\* on_pkt that counts a failure but leaves the buffer and started alone
PsiParser_on_pkt_no_rearm(p, pkt) ==
  LET r == PsiParser_parse(p, pkt)
  IN IF r.ok \/ r.p.panicked
     THEN r.p
     ELSE [r.p EXCEPT !.stats.invalid_psi = @ + 1]

\* <PsiParser as TsHandler>::on_pkt
PsiParser_on_pkt(p, pkt) ==
  LET r == PsiParser_parse(p, pkt)
  IN IF r.ok \/ r.p.panicked
     THEN r.p
     ELSE [r.p EXCEPT !.stats.invalid_psi = @ + 1,
                      !.data = <<>>,
                      !.started = FALSE]

\* <PsiParser<H> as TsHandler>::on_pkt with H::TABLE_ID = table_id
PsiParser_on_pkt_for(table_id, p, pkt) ==
  LET r == PsiParser_parse_for(table_id, p, pkt)
  IN IF r.ok \/ r.p.panicked
     THEN r.p
     ELSE [r.p EXCEPT !.stats.invalid_psi = @ + 1,
                      !.data = <<>>,
                      !.started = FALSE]

\* a section of TABLE_ID with its CRC: header, 7 body bytes, CRC
Section ==
  <<2, 176, 11, 0, 1, 2, 3, 4, 5, 6, 37, 28, 214, 121>>

\* the payloads that are split into packets: tests::PSI (pointer_field 5,
\* four bytes of padding), and the same section right behind a pointer_field
\* of 0 and with no padding
PsiInputs ==
  {<<5>> \o Fill(5, 255) \o Section \o Fill(4, 255),
   <<0>> \o Section}

\* the number of bytes of psi_input fed so far
RECURSIVE Sum(_)
Sum(s) == IF s = <<>> THEN 0 ELSE Head(s) + Sum(Tail(s))

PsiFed == Sum(psi_splits)

\* PsiParser::new given a fresh Context
NewPsiParser ==
  [data |-> <<>>, started |-> FALSE, stats |-> ZeroStats,
   sections |-> <<>>, panicked |-> FALSE]

\* one call of <PsiParser as TsHandler>::on_pkt, and what is observed of it:
\* the packet, the latest payload_start packet, and for a section delivered
\* by this call the packets first .. last that its bytes arrived in
PsiOnPkt(pkt) ==
  /\ ~psi_panicked
  /\ LET p == PsiParser_on_pkt(
                [data |-> data, started |-> started, stats |-> stats,
                 sections |-> sections, panicked |-> FALSE], pkt)
         at == Len(psi_in) + 1
         first == IF pkt.payload_start THEN at ELSE psi_start_at
     IN /\ data' = p.data
        /\ started' = p.started
        /\ stats' = p.stats
        /\ sections' = p.sections
        /\ psi_panicked' = p.panicked
        /\ psi_start_at' = first
        /\ section_spans' =
             IF Len(p.sections) > Len(sections)
             THEN Append(section_spans, [first |-> first, last |-> at])
             ELSE section_spans
  /\ psi_in' = Append(psi_in, pkt)

\* the packet of a PSI pid as parse_packet decodes it, with the fields the
\* continuity controller and the reassembler read
PsiPkt(start, cc, bytes) ==
  [payload_start |-> start, continuity_counter |-> cc, payload |-> bytes]

\* the next n bytes of psi_input arrive as one packet; only the first packet
\* has payload_start
OnPkt(n) ==
  /\ Len(psi_splits) < MaxPkts
  /\ n >= 1
  /\ PsiFed + n <= Len(psi_input)
  /\ PsiOnPkt(PsiPkt(psi_splits = <<>>, Len(psi_splits) % 16,
                     SubSeq(psi_input, PsiFed + 1, PsiFed + n)))
  /\ psi_splits' = Append(psi_splits, n)
  /\ UNCHANGED psi_input
  /\ UNCHANGED framerVars
  /\ UNCHANGED pidVars
  /\ UNCHANGED demuxVars
  /\ UNCHANGED queueVars
  /\ UNCHANGED callVars
  /\ UNCHANGED pipeVars

\* Section with its last CRC byte changed
BadCrcSection ==
  <<2, 176, 11, 0, 1, 2, 3, 4, 5, 6, 37, 28, 214, 120>>

\* the payloads offered to the reassembler, each with and without
\* payload_start: a whole section behind pointer_field 0, the same with a
\* wrong CRC, with another table_id, with section_length 1022, no bytes at
\* all, a pointer_field beyond the payload, the section cut in two, the
\* three bytes of tests::not_started_before, and the rest of the section in
\* front of the pointer_field target with a whole section or the head of one
\* at the target
FeedPayloads ==
  {<<0>> \o Section,
   <<0>> \o BadCrcSection,
   <<0, 3>> \o Tail(Section),
   <<0, 2, 179, 254, 0>>,
   <<>>,
   <<9, 255>>,
   <<0>> \o SubSeq(Section, 1, 6),
   SubSeq(Section, 7, Len(Section)),
   <<255, 255, 255>>,
   <<8>> \o SubSeq(Section, 7, Len(Section)) \o Section,
   <<8>> \o SubSeq(Section, 7, Len(Section)) \o SubSeq(Section, 1, 6)}

FeedPackets ==
  {PsiPkt(start, 0, bytes) : start \in BOOLEAN, bytes \in FeedPayloads}

\* a packet of the PSI pid reaches the reassembler
FeedPkt(pkt) ==
  /\ Len(psi_in) < MaxPkts
  /\ PsiOnPkt(pkt)
  /\ UNCHANGED <<psi_input, psi_splits>>
  /\ UNCHANGED framerVars
  /\ UNCHANGED pidVars
  /\ UNCHANGED demuxVars
  /\ UNCHANGED queueVars
  /\ UNCHANGED callVars
  /\ UNCHANGED pipeVars

\* the packets of one PSI pid as the transport stream carries them: the
\* section cut in two or whole, under several continuity counters
PsiPidCounters == {0, 1, 2, 5}
PsiPidPackets ==
  {PsiPkt(TRUE, cc, <<0>> \o SubSeq(Section, 1, 6)) : cc \in PsiPidCounters}
    \cup {PsiPkt(FALSE, cc, SubSeq(Section, 7, Len(Section))) :
            cc \in PsiPidCounters}
    \cup {PsiPkt(TRUE, cc, <<0>> \o Section) : cc \in PsiPidCounters}

\* <Demult as TsHandler>::on_pkt for a packet whose pid has a PsiParser in
\* pids: the packet goes to that parser's on_pkt
RoutePsiPkt(pkt) ==
  /\ Len(psi_in) < MaxPkts
  /\ PsiOnPkt(pkt)
  /\ UNCHANGED <<psi_input, psi_splits>>
  /\ UNCHANGED framerVars
  /\ UNCHANGED pidVars
  /\ UNCHANGED demuxVars
  /\ UNCHANGED queueVars
  /\ UNCHANGED callVars
  /\ UNCHANGED pipeVars

-----------------------------------------------------------------------------
(* PatParser (src/mp2t/pat_parser.rs) *)

\* get_u16 at the 1-based position i of bytes
U16(bytes, i) == bytes[i] * 256 + bytes[i + 1]

RECURSIVE PatEntries(_, _, _)
\* the while loop of parse_psi from position i on: pat with the entries of
\* buf read four bytes at a time, a rest of fewer than four bytes left over
PatEntries(pat, buf, i) ==
  IF Len(buf) - i + 1 < 4 THEN pat
  ELSE LET program_number == U16(buf, i)
           pid == U16(buf, i + 2) % 8192
       IN PatEntries(
            IF program_number = 0
            THEN [pat EXCEPT !.network_pid = Some(pid)]
            ELSE [pat EXCEPT !.programs =
                               Append(@, [number |-> program_number,
                                          pid |-> pid])],
            buf, i + 4)

\* the Pat that parse_psi reads from a section body of 5 bytes or more
ReadPat(psi) ==
  PatEntries([transport_stream_id |-> U16(psi, 1),
              version |-> (psi[3] \div 2) % 32,
              current_next |-> Bit(psi[3], 0),
              section |-> psi[4],
              last_section |-> psi[5],
              network_pid |-> None,
              programs |-> <<>>],
             psi, 6)

\* Event::Pat carrying the new table
PatEvent(pat) == [kind |-> "Pat", new |-> pat]

\* parse_psi that pushes an event for every table it reads
PatParser_parse_psi_always(c, psi) ==
  IF Len(psi) < 5 THEN [ok |-> FALSE, c |-> c]
  ELSE LET pat == ReadPat(psi)
       IN [ok |-> TRUE,
           c |-> [c EXCEPT !.events = Append(@, PatEvent(pat)),
                           !.current = Some(pat)]]

\* PatParser::parse_psi on c = [current, events, stats]; ok is the bool it
\* returns
PatParser_parse_psi(c, psi) ==
  IF Len(psi) < 5 THEN [ok |-> FALSE, c |-> c]
  ELSE LET pat == ReadPat(psi)
           changed == IF c.current.some THEN pat # c.current.v ELSE TRUE
       IN IF changed
          THEN [ok |-> TRUE,
                c |-> [c EXCEPT !.events = Append(@, PatEvent(pat)),
                                !.current = Some(pat)]]
          ELSE [ok |-> TRUE, c |-> c]

\* <PatParser as PsiHandler>::on_psi
PatParser_on_psi(c, psi) ==
  LET r == PatParser_parse_psi(c, psi)
  IN IF r.ok THEN r.c ELSE [r.c EXCEPT !.stats.invalid_psi = @ + 1]

\* a PAT section body: transport_stream_id 1, the version, current_next
\* set, section numbers 0, then one entry per element of entries
PatBody(version, entries) ==
  <<0, 1, 193 + 2 * version, 0, 0>>
    \o Concat([i \in 1 .. Len(entries) |->
                 <<entries[i][1] \div 256, entries[i][1] % 256,
                   224 + entries[i][2] \div 256, entries[i][2] % 256>>])

\* the PAT section bodies that reach the PAT parser: A; A with the pid of
\* program 1 changed; A without program 1; program 1 on pid 0; both
\* programs on one pid; A in the other order; program 3 on the pid of null
\* packets; too few bytes
PatA == PatBody(0, <<<<0, 10>>, <<1, 100>>, <<2, 200>>>>)
PatSections ==
  {PatA,
   PatBody(1, <<<<0, 10>>, <<1, 300>>, <<2, 200>>>>),
   PatBody(1, <<<<2, 200>>>>),
   PatBody(0, <<<<1, 0>>>>),
   PatBody(0, <<<<1, 200>>, <<2, 200>>>>),
   PatBody(0, <<<<0, 10>>, <<2, 200>>, <<1, 100>>>>),
   PatBody(0, <<<<3, 8191>>>>),
   <<0, 1, 193>>}

-----------------------------------------------------------------------------
(* PmtParser (src/mp2t/pmt_parser.rs) and parse_stream_desc
   (src/mp2t/desc.rs).  A position in a slice is the 1-based index of the
   byte that the cursor of the source is at. *)

REGISTRATION_DESC_TAG == 5
METADATA_DESC_TAG == 38
AC3_DESCRIPTOR_TAG == 106
EAC3_DESCRIPTOR_TAG == 122

\* desc::parse_stream_desc; a 32-bit field is kept as its four bytes
parse_stream_desc(tag, buf) ==
  IF tag = REGISTRATION_DESC_TAG
  THEN IF Len(buf) < 4 THEN None
       ELSE Some([kind |-> "Registration", id |-> SubSeq(buf, 1, 4)])
  ELSE IF tag = METADATA_DESC_TAG
  THEN IF Len(buf) < 2 THEN None
       ELSE IF U16(buf, 1) = 65535
       THEN IF Len(buf) - 2 < 4 THEN None
            ELSE Some([kind |-> "Metadata", id |-> SubSeq(buf, 3, 6)])
       ELSE Some([kind |-> "Metadata", id |-> <<>>])
  ELSE IF tag = AC3_DESCRIPTOR_TAG THEN Some([kind |-> "Ac3", id |-> <<>>])
  ELSE IF tag = EAC3_DESCRIPTOR_TAG THEN Some([kind |-> "Eac3", id |-> <<>>])
  ELSE None

RECURSIVE StreamDescs(_, _, _)
\* the descriptor loop of PmtParser::parse over es_info from position i on:
\* ok is FALSE when a descriptor is longer than what is left
StreamDescs(es_info, i, descs) ==
  IF Len(es_info) - i + 1 < 2 THEN [ok |-> TRUE, descs |-> descs]
  ELSE LET desc_tag == es_info[i]
           desc_len == es_info[i + 1]
           left == Len(es_info) - (i + 2) + 1
       IN IF desc_len > left THEN [ok |-> FALSE, descs |-> descs]
          ELSE LET desc == parse_stream_desc(
                             desc_tag, SubSeq(es_info, i + 2, i + 1 + desc_len))
               IN StreamDescs(es_info, i + 2 + desc_len,
                              IF desc.some THEN Append(descs, desc.v)
                              ELSE descs)

RECURSIVE PmtStreams(_, _, _, _)
\* the stream loop of PmtParser::parse over buf from position i on.  The
\* descriptors are read through the slice es_info; buf itself is advanced
\* by the five bytes read with get_u8 and get_u16 only.
PmtStreams(buf, i, index, streams) ==
  IF Len(buf) - i + 1 < 5 THEN [ok |-> TRUE, streams |-> streams]
  ELSE LET stream_type == buf[i]
           pid == U16(buf, i + 1) % 8192
           es_info_len == U16(buf, i + 3) % 4096
           left == Len(buf) - (i + 5) + 1
       IN IF es_info_len > left THEN [ok |-> FALSE, streams |-> streams]
          ELSE LET d == StreamDescs(SubSeq(buf, i + 5, i + 4 + es_info_len),
                                    1, <<>>)
               IN IF ~d.ok THEN [ok |-> FALSE, streams |-> streams]
                  ELSE PmtStreams(
                         buf, i + 5, index + 1,
                         Append(streams, [pid |-> pid,
                                          stream_type |-> stream_type,
                                          index |-> index,
                                          descs |-> d.descs]))

NoPmt == [program_number |-> 0, version |-> 0, current_next |-> FALSE,
          pcr_pid |-> 0, streams |-> <<>>]

\* PmtParser::parse: ok is the bool it returns, pmt the table it gives to
\* its handler when ok
PmtParser_parse(psi) ==
  IF Len(psi) < 9 THEN [ok |-> FALSE, pmt |-> NoPmt]
  ELSE LET program_number == U16(psi, 1)
           version == (psi[3] \div 2) % 32
           current_next == Bit(psi[3], 0)
           section == psi[4]
           last_section == psi[5]
           pcr_pid == U16(psi, 6) % 8192
           program_info_len == U16(psi, 8) % 4096
       IN IF section # 0 \/ last_section # 0
          THEN [ok |-> FALSE, pmt |-> NoPmt]
          ELSE IF program_info_len > Len(psi) - 9
          THEN [ok |-> FALSE, pmt |-> NoPmt]
          ELSE LET s == PmtStreams(psi, 10 + program_info_len, 0, <<>>)
               IN IF s.ok
                  THEN [ok |-> TRUE,
                        pmt |-> [program_number |-> program_number,
                                 version |-> version,
                                 current_next |-> current_next,
                                 pcr_pid |-> pcr_pid,
                                 streams |-> s.streams]]
                  ELSE [ok |-> FALSE, pmt |-> NoPmt]

\* a stream entry of a PMT section body: five bytes, then es_info
StreamEntry(stream_type, pid, es_info) ==
  <<stream_type, 224 + pid \div 256, pid % 256,
    240 + Len(es_info) \div 256, Len(es_info) % 256>> \o es_info

\* the entries a section body is built from, as [stream_type, pid, es_info]:
\* no descriptor; a registration descriptor; an AC-3 descriptor; an
\* unrecognized descriptor and a metadata descriptor
PmtEntries ==
  {[stream_type |-> 27, pid |-> 256, es_info |-> <<>>],
   [stream_type |-> 15, pid |-> 257, es_info |-> <<5, 4, 72, 68, 77, 86>>],
   [stream_type |-> 129, pid |-> 258, es_info |-> <<106, 0>>],
   [stream_type |-> 21, pid |-> 259, es_info |-> <<10, 1, 0, 38, 2, 0, 16>>]}

\* the body of a PMT section of program 1, version 0, pcr_pid 256, without
\* program descriptors, that lists the entries es
PmtBody(es) ==
  <<0, 1, 193, 0, 0, 225, 0, 240, 0>>
    \o Concat([i \in 1 .. Len(es) |->
                 StreamEntry(es[i].stream_type, es[i].pid, es[i].es_info)])

\* one call of PmtParser::parse
ParsePmt ==
  /\ pmt_result = <<>>
  /\ pmt_input # <<>>
  /\ pmt_result' = <<PmtParser_parse(PmtBody(pmt_input))>>
  /\ UNCHANGED <<pmt_input, decode_input, decode_result, stats>>
  /\ UNCHANGED pipeVars
  /\ UNCHANGED framerVars
  /\ UNCHANGED pidVars
  /\ UNCHANGED psiVars
  /\ UNCHANGED demuxVars
  /\ UNCHANGED queueVars

-----------------------------------------------------------------------------
(* Demult and Demuxer (src/mp2t/demuxer.rs).  The pid table is a function
   from the mapped pids to the kind of parser boxed on each; the programs
   table is a function from the tracked program numbers to Program. *)

\* PsiParser::new: the boxed parser of a pid, with the kind of PsiHandler it
\* was built with
NewPsiHandler(kind) == [kind |-> kind, data |-> <<>>, started |-> FALSE]

\* PsiParser::new(PatParser::new()) and PsiParser::new(PmtParser::new())
PatHandler == NewPsiHandler("PAT")
PmtHandler == NewPsiHandler("PMT")

\* H::TABLE_ID of the handler of each kind; PmtParser has no impl of
\* PsiHandler in the source, its table_id is that of a PMT section
HandlerTableId(kind) == IF kind = "PAT" THEN 0 ELSE 2

\* PmtParser::parse_psi on c = [current, events, stats]
PmtParser_parse_psi(c, psi) ==
  IF PmtParser_parse(psi).ok THEN c
  ELSE [c EXCEPT !.stats.invalid_pmt = @ + 1]

\* the on_pkt of the parser h boxed on a pid, on c = [current, events,
\* stats]: the section its PsiParser completes goes to its PsiHandler
Handler_on_pkt(h, c, pkt) ==
  LET p == PsiParser_on_pkt_for(
             HandlerTableId(h.kind),
             [data |-> h.data, started |-> h.started, stats |-> c.stats,
              sections |-> <<>>, panicked |-> FALSE], pkt)
      c1 == [c EXCEPT !.stats = p.stats]
  IN [h |-> [h EXCEPT !.data = p.data, !.started = p.started],
      c |-> IF p.sections = <<>> THEN c1
            ELSE IF h.kind = "PAT" THEN PatParser_on_psi(c1, p.sections[1])
            ELSE PmtParser_parse_psi(c1, p.sections[1])]

\* on_pkt that hands every packet to the parser on pid 0
Demult_on_pkt_to_pid0(d, c, pkt) ==
  IF 0 \in DOMAIN d.pids
  THEN LET r == Handler_on_pkt(d.pids[0], c, pkt)
       IN [d |-> [d EXCEPT !.pids[0] = r.h], c |-> r.c]
  ELSE [d |-> d, c |-> [c EXCEPT !.stats.ignored_ts_packets = @ + 1]]

\* <Demult as TsHandler>::on_pkt on d = [pids, programs] and c = [current,
\* events, stats]
Demult_on_pkt(d, c, pkt) ==
  IF pkt.pid \in DOMAIN d.pids
  THEN LET r == Handler_on_pkt(d.pids[pkt.pid], c, pkt)
       IN [d |-> [d EXCEPT !.pids[pkt.pid] = r.h], c |-> r.c]
  ELSE [d |-> d, c |-> [c EXCEPT !.stats.ignored_ts_packets = @ + 1]]

\* HashMap::insert and HashMap::remove
MapInsert(map, k, v) == [x \in DOMAIN map \cup {k} |-> IF x = k THEN v ELSE map[x]]
MapRemove(map, ks) == [x \in DOMAIN map \ ks |-> map[x]]

\* Demult::new
NewDemult == [pids |-> MapInsert(<<>>, 0, PatHandler), programs |-> <<>>]

\* Program as on_pat creates it
NewProgram(program_info) ==
  [program_info |-> program_info, pmt |-> None, enabled |-> FALSE]

\* valid_programs of on_pat: collecting into the map keeps, for a number
\* listed more than once, the entry listed last
ValidPrograms(pat) ==
  [n \in {pat.programs[i].number : i \in 1 .. Len(pat.programs)} |->
     LET listed == {i \in 1 .. Len(pat.programs) : pat.programs[i].number = n}
         last == CHOOSE i \in listed : \A j \in listed : j <= i
     IN pat.programs[last]]

\* dead_program_nums of on_pat
DeadProgramNums(d, pat) ==
  LET valid_programs == ValidPrograms(pat)
  IN {n \in DOMAIN d.programs :
        IF n \in DOMAIN valid_programs
        THEN d.programs[n].program_info.pid # valid_programs[n].pid
        ELSE FALSE}

\* the pids a dead program unmaps: its own and those of its pmt's streams
ProgramPids(prog) ==
  {prog.program_info.pid}
    \cup (IF prog.pmt.some
          THEN {prog.pmt.v.streams[i].pid : i \in 1 .. Len(prog.pmt.v.streams)}
          ELSE {})

\* on_pat that tracks a program whose pid changed as it was, with the new pid
Demult_on_pat_keeps_enabled(d, pat) ==
  LET valid_programs == ValidPrograms(pat)
      dead == DeadProgramNums(d, pat)
      dead_pids == UNION {ProgramPids(d.programs[n]) : n \in dead}
      fresh == DOMAIN valid_programs \ DOMAIN d.programs
  IN [pids |-> MapRemove(d.pids, dead_pids),
      programs |-> [n \in DOMAIN d.programs \cup fresh |->
                      IF n \in fresh THEN NewProgram(valid_programs[n])
                      ELSE IF n \in dead
                      THEN [d.programs[n] EXCEPT !.program_info = valid_programs[n]]
                      ELSE d.programs[n]]]

\* Demult::on_pat on d = [pids, programs]
Demult_on_pat(d, pat) ==
  LET valid_programs == ValidPrograms(pat)
      dead == DeadProgramNums(d, pat)
      dead_pids == UNION {ProgramPids(d.programs[n]) : n \in dead}
      kept == MapRemove(d.programs, dead)
      fresh == DOMAIN valid_programs \ DOMAIN kept
  IN [pids |-> MapRemove(d.pids, dead_pids),
      programs |-> [n \in DOMAIN kept \cup fresh |->
                      IF n \in fresh THEN NewProgram(valid_programs[n])
                      ELSE kept[n]]]

\* the values enable_program returns
Ok == "Ok"
InvalidProgramNumber == "InvalidProgramNumber"

\* enable_program that maps the pid of an untracked number as well
Demult_enable_program_maps_untracked(d, program_number) ==
  IF program_number \in DOMAIN d.programs
  THEN LET prog == d.programs[program_number]
       IN IF ~prog.enabled
          THEN [ret |-> Ok,
                d |-> [pids |-> MapInsert(d.pids, prog.program_info.pid, PmtHandler),
                       programs |-> [d.programs EXCEPT ![program_number].enabled = TRUE]]]
          ELSE [ret |-> Ok, d |-> d]
  ELSE [ret |-> InvalidProgramNumber,
        d |-> [d EXCEPT !.pids = MapInsert(@, program_number, PmtHandler)]]

\* enable_program that boxes a new parser on the pid of a program that is
\* enabled already
Demult_enable_program_reinstalls(d, program_number) ==
  IF program_number \in DOMAIN d.programs
  THEN LET prog == d.programs[program_number]
       IN [ret |-> Ok,
           d |-> [pids |-> MapInsert(d.pids, prog.program_info.pid, PmtHandler),
                  programs |-> [d.programs EXCEPT ![program_number].enabled = TRUE]]]
  ELSE [ret |-> InvalidProgramNumber, d |-> d]

\* Demult::enable_program on d = [pids, programs]; ret is the Result
Demult_enable_program(d, program_number) ==
  IF program_number \in DOMAIN d.programs
  THEN LET prog == d.programs[program_number]
       IN IF ~prog.enabled
          THEN [ret |-> Ok,
                d |-> [pids |-> MapInsert(d.pids, prog.program_info.pid, PmtHandler),
                       programs |-> [d.programs EXCEPT ![program_number].enabled = TRUE]]]
          ELSE [ret |-> Ok, d |-> d]
  ELSE [ret |-> InvalidProgramNumber, d |-> d]

\* the program numbers the caller enables and the pids of the packets routed
ProgramNumbers == {1, 2, 3}
RoutedPids == {0, 100, 200, 8191}

\* the observation of one operation on the demultiplexer: its arguments,
\* its result and the tables it found
DemuxOp(op, number, pat, ret) ==
  [op |-> op, number |-> number, pat |-> pat, ret |-> ret,
   before |-> [pids |-> pids, programs |-> programs]]

\* Demuxer::parse is between reading its input and returning the event it
\* pops: the packets it has routed queued events it has yet to pop
MidParse == demux_last.op \in {"pat_pkt", "pkt"} /\ events # <<>>

\* Demuxer::parse routes what it reads only when it found no event queued
CanRoute == events = <<>> \/ MidParse

\* Demult::on_pkt for a packet on pid 0 that starts a payload and carries
\* one whole section of table_id 0 with a good CRC and the body psi: the
\* parser on pid 0 is unstarted and empty afterwards; when it was built with
\* a PatParser it has handed the body to it, otherwise it has failed on the
\* table_id
RoutePatPkt(psi) ==
  /\ demux_ops < MaxDemuxOps
  /\ CanRoute
  /\ IF 0 \in DOMAIN pids
     THEN /\ pids' = [pids EXCEPT ![0] = NewPsiHandler(@.kind)]
          /\ IF pids[0].kind = "PAT"
             THEN LET c == PatParser_on_psi([current |-> pat_current,
                                             events |-> events,
                                             stats |-> stats], psi)
                  IN /\ pat_current' = c.current
                     /\ events' = c.events
                     /\ stats' = c.stats
             ELSE /\ stats' = [stats EXCEPT !.invalid_psi = @ + 1]
                  /\ UNCHANGED <<pat_current, events>>
     ELSE /\ stats' = [stats EXCEPT !.ignored_ts_packets = @ + 1]
          /\ UNCHANGED <<pat_current, events, pids>>
  /\ demux_ops' = demux_ops + 1
  /\ demux_last' = DemuxOp("pat_pkt", 0, None, Ok)
  /\ UNCHANGED programs
  /\ UNCHANGED framerVars
  /\ UNCHANGED pidVars
  /\ UNCHANGED psiVars
  /\ UNCHANGED queueVars
  /\ UNCHANGED callVars
  /\ UNCHANGED pipeVars

\* the packets routed besides whole PAT sections, as parse_packet decodes
\* them: one that starts a payload with pointer_field 0 and the first bytes
\* of a section of 14 bytes of table_id 0 or 2 (on pid 0, on a pid that
\* PAT sections give to programs, with either table_id, and on the pid of
\* null packets), and one that continues a payload
HeadPayload(table_id) == <<0, table_id, 176, 11, 0, 1, 2>>
ContPayload == <<3, 4>>
DemuxPkt(pid, start, bytes) ==
  [pid |-> pid, payload_start |-> start, continuity_counter |-> 0,
   payload |-> bytes]
RoutedPackets ==
  {DemuxPkt(pid, FALSE, ContPayload) : pid \in RoutedPids}
    \cup {DemuxPkt(0, TRUE, HeadPayload(0)),
          DemuxPkt(200, TRUE, HeadPayload(0)),
          DemuxPkt(200, TRUE, HeadPayload(2)),
          DemuxPkt(8191, TRUE, HeadPayload(2))}

\* <Demult as TsHandler>::on_pkt for the decoded packet pkt
RoutePkt(pkt) ==
  /\ demux_ops < MaxDemuxOps
  /\ CanRoute
  /\ LET r == Demult_on_pkt([pids |-> pids, programs |-> programs],
                            [current |-> pat_current, events |-> events,
                             stats |-> stats], pkt)
     IN /\ pids' = r.d.pids
        /\ programs' = r.d.programs
        /\ pat_current' = r.c.current
        /\ events' = r.c.events
        /\ stats' = r.c.stats
  /\ demux_ops' = demux_ops + 1
  /\ demux_last' = DemuxOp("pkt", pkt.pid, None, Ok)
  /\ UNCHANGED framerVars
  /\ UNCHANGED pidVars
  /\ UNCHANGED psiVars
  /\ UNCHANGED queueVars
  /\ UNCHANGED callVars
  /\ UNCHANGED pipeVars

\* Demuxer::parse from the pop of the front event on: a Pat event is given
\* to Demult::on_pat before it is returned
DemuxerParse ==
  /\ demux_ops < MaxDemuxOps
  /\ events # <<>>
  /\ LET e == Head(events)
         d == Demult_on_pat([pids |-> pids, programs |-> programs], e.new)
     IN /\ pids' = d.pids
        /\ programs' = d.programs
        /\ demux_last' = DemuxOp("parse", 0, Some(e.new), Ok)
  /\ events' = Tail(events)
  /\ demux_ops' = demux_ops + 1
  /\ UNCHANGED <<pat_current, stats>>
  /\ UNCHANGED framerVars
  /\ UNCHANGED pidVars
  /\ UNCHANGED psiVars
  /\ UNCHANGED queueVars
  /\ UNCHANGED callVars
  /\ UNCHANGED pipeVars

\* Demuxer::enable_program, called between two calls of Demuxer::parse
EnableProgram(program_number) ==
  /\ demux_ops < MaxDemuxOps
  /\ ~MidParse
  /\ LET r == Demult_enable_program([pids |-> pids, programs |-> programs],
                                    program_number)
     IN /\ pids' = r.d.pids
        /\ programs' = r.d.programs
        /\ demux_last' = DemuxOp("enable_program", program_number, None, r.ret)
  /\ demux_ops' = demux_ops + 1
  /\ UNCHANGED <<pat_current, events, stats>>
  /\ UNCHANGED framerVars
  /\ UNCHANGED pidVars
  /\ UNCHANGED psiVars
  /\ UNCHANGED queueVars
  /\ UNCHANGED callVars
  /\ UNCHANGED pipeVars

-----------------------------------------------------------------------------
(* Demuxer::parse reading a byte stream (src/mp2t/demuxer.rs): the framer,
   the handlers and the event queue together.  pushed counts the bytes read
   from the input so far. *)

\* a PSI section of table_id 0 around body: header, body, CRC
PatSection(body) ==
  LET head == <<0, 176, Len(body) + 4>> \o body
  IN head \o CrcBytes(mpeg2(head))

\* the transport packet on pid 0 that carries the whole section of body:
\* payload_start set, payload only, pointer_field 0, stuffing behind
PatTsPacket(body) ==
  LET section == PatSection(body)
  IN <<HEADER_SYNC_WORD, 64, 0, 16, 0>> \o section
       \o Fill(PACKET_SIZE - 5 - Len(section), 255)

\* the packets of an input: a PAT listing program 1, the next version of it
\* listing program 2 as well, and a packet on pid 0x65
PipeKinds == {"A", "B", "X"}
PipePacket(kind) ==
  IF kind = "A" THEN PatTsPacket(PatBody(0, <<<<1, 100>>>>))
  ELSE IF kind = "B" THEN PatTsPacket(PatBody(1, <<<<1, 100>>, <<2, 200>>>>))
  ELSE ValidPkt(0)

\* the inputs: up to MaxPipePkts packets, then nothing or one more byte
PipeInputs ==
  {Concat([i \in 1 .. Len(ks) |-> PipePacket(ks[i])]) \o tl :
     ks \in SeqsUpTo(PipeKinds, MaxPipePkts), tl \in Tails}

\* the TsPacket that the handler is given for the decoded packet pkt
TsPacketOf(pkt) ==
  [pid |-> pkt.pid, payload_start |-> pkt.payload_start,
   continuity_counter |-> pkt.continuity_counter, payload |-> Payload(pkt)]

\* r = [d, c, caused] after a handler call that left the Demult and the
\* Context o = [d, c]: the events the call pushed are kept with the stream
\* position at of its packet
Handled(r, at, o) ==
  [d |-> o.d, c |-> o.c,
   caused |-> r.caused
                \o [i \in 1 .. Len(o.c.events) - Len(r.c.events) |->
                      [at |-> at, event |-> o.c.events[Len(r.c.events) + i]]]]

RECURSIVE HandlePackets(_, _, _)
\* the handler calls of one run of the framer's loop, for the packets ds
\* from the k-th on, in order; r = [d, c, caused] is the Demult, the Context
\* and the events pushed so far
HandlePackets(ds, k, r) ==
  IF k > Len(ds) THEN r
  ELSE HandlePackets(ds, k + 1,
         Handled(r, ds[k].at, Demult_on_pkt(r.d, r.c, TsPacketOf(ds[k].pkt))))

\* the framer state s after its loop, and what the handler calls of that
\* loop made of the Demult and the Context
Routed(s) ==
  [s |-> s,
   h |-> HandlePackets(s.delivered, 1,
           [d |-> [pids |-> pids, programs |-> programs],
            c |-> [current |-> pat_current, events |-> events,
                   stats |-> s.stats],
            caused |-> <<>>])]

\* self.ts_parser.parse(&mut self.ctx) at the top of the loop of
\* Demuxer::parse: the framer's loop over the queued bytes, each decoded
\* packet given to Demult::on_pkt before it is popped
TsParserParse ==
  Routed(parse_loop([q |-> byte_queue, synchronized |-> synchronized,
                     stats |-> stats, delivered |-> <<>>,
                     panicked |-> FALSE, last_sync |-> last_sync,
                     last_bad |-> last_bad]))

\* what the run r of the framer at the top of the loop leaves behind,
\* whichever arm follows
Parsed(r) ==
  /\ synchronized' = r.s.synchronized
  /\ delivered' = delivered \o r.s.delivered
  /\ last_sync' = r.s.last_sync
  /\ last_bad' = r.s.last_bad
  /\ stats' = r.h.c.stats
  /\ pat_current' = r.h.c.current
  /\ pipe_caused' = pipe_caused \o r.h.caused
  /\ UNCHANGED <<segs, tail, pushes, pipe_input, demux_ops, demux_last>>
  /\ UNCHANGED pidVars
  /\ UNCHANGED psiVars
  /\ UNCHANGED queueVars
  /\ UNCHANGED callVars

\* the iteration panics inside the framer, after the run r
PanicsAfter(r) ==
  /\ r.s.panicked
  /\ Parsed(r)
  /\ panicked' = TRUE
  /\ byte_queue' = r.s.q
  /\ events' = r.h.c.events
  /\ pids' = r.h.d.pids
  /\ programs' = r.h.d.programs
  /\ UNCHANGED <<pushed, pipe_returned, pipe_eof>>

\* Demuxer::parse, an iteration that panics inside the framer: the call
\* never returns
DemuxerParsePanics ==
  /\ ~panicked /\ ~pipe_eof
  /\ PanicsAfter(TsParserParse)

\* the arm Some(e) after the run r
SomeAfter(r) ==
  /\ ~r.s.panicked
  /\ r.h.c.events # <<>>
  /\ Parsed(r)
  /\ pids' = Demult_on_pat(r.h.d, Head(r.h.c.events).new).pids
  /\ programs' = Demult_on_pat(r.h.d, Head(r.h.c.events).new).programs
  /\ pipe_returned' = Append(pipe_returned, Head(r.h.c.events))
  /\ events' = Tail(r.h.c.events)
  /\ byte_queue' = r.s.q
  /\ UNCHANGED <<panicked, pushed, pipe_eof>>

\* Demuxer::parse, an iteration that takes the arm Some(e): a Pat event is
\* given to Demult::on_pat, and e is returned
DemuxerParseSome ==
  /\ ~panicked /\ ~pipe_eof
  /\ SomeAfter(TsParserParse)

\* the arm None after the run r, with a read of n >= 1 bytes
ReadAfter(r, n) ==
  /\ ~r.s.panicked
  /\ r.h.c.events = <<>>
  /\ Parsed(r)
  /\ byte_queue' = Write(r.s.q, SubSeq(pipe_input, pushed + 1, pushed + n))
  /\ pids' = r.h.d.pids
  /\ programs' = r.h.d.programs
  /\ pushed' = pushed + n
  /\ UNCHANGED <<panicked, events, pipe_returned, pipe_eof>>

\* Demuxer::parse, an iteration that takes the arm None and reads n >= 1
\* bytes, which are pushed to the framer
DemuxerParseRead(n) ==
  /\ ~panicked /\ ~pipe_eof
  /\ n >= 1
  /\ pushed + n <= Len(pipe_input)
  /\ ReadAfter(TsParserParse, n)

\* the arm None after the run r, with a read of 0 bytes
EofAfter(r) ==
  /\ ~r.s.panicked
  /\ r.h.c.events = <<>>
  /\ Parsed(r)
  /\ byte_queue' = r.s.q
  /\ pids' = r.h.d.pids
  /\ programs' = r.h.d.programs
  /\ pipe_eof' = TRUE
  /\ UNCHANGED <<panicked, pushed, events, pipe_returned>>

\* Demuxer::parse, an iteration that takes the arm None at the end of the
\* input: the read gives 0 bytes and Ok(None) is returned
DemuxerParseEof ==
  /\ ~panicked /\ ~pipe_eof
  /\ pushed = Len(pipe_input)
  /\ EofAfter(TsParserParse)

\* the sizes of the reads when rem bytes of the input are left
ReadSizes(rem) ==
  {n \in {PACKET_SIZE, PACKET_SIZE + 1, rem} : n >= 1 /\ n <= rem}

\* Demuxer::parse has read nothing
PipeNew ==
  /\ pipe_caused = <<>>
  /\ pipe_returned = <<>>
  /\ pipe_eof = FALSE

\* Demuxer::parse is not called
PipeIdle == pipe_input = <<>> /\ PipeNew

\* Demuxer::new
DemuxInit ==
  /\ pat_current = None
  /\ events = <<>>
  /\ pids = NewDemult.pids
  /\ programs = NewDemult.programs
  /\ demux_ops = 0
  /\ demux_last = DemuxOp("new", 0, None, Ok)

\* PidControl::new
PidInit ==
  /\ continuity_counter = None
  /\ pid_in = <<>>
  /\ pid_out = <<>>

\* PsiParser::new, fed nothing
PsiNew ==
  /\ psi_splits = <<>>
  /\ data = <<>>
  /\ started = FALSE
  /\ sections = <<>>
  /\ psi_panicked = FALSE
  /\ psi_in = <<>>
  /\ psi_start_at = 0
  /\ section_spans = <<>>

PsiInit == psi_input = <<>> /\ PsiNew

\* TsParser::new
FramerNew ==
  /\ pushed = 0
  /\ pushes = 0
  /\ byte_queue = NewByteQueue
  /\ synchronized = FALSE
  /\ delivered = <<>>
  /\ panicked = FALSE
  /\ last_sync = NoSync
  /\ last_bad = NoBad

\* a framer and the stream the caller is about to feed it
FramerInit ==
  /\ segs \in SeqsUpTo(SegKinds, MaxSegs)
  /\ tail \in Tails
  /\ FramerNew

\* a framer that is fed nothing
FramerIdle ==
  /\ segs = <<>>
  /\ tail = <<>>
  /\ FramerNew

\* PmtParser::parse is not called
PmtIdle == pmt_input = <<>> /\ pmt_result = <<>>

CallInit == DecodeIdle /\ PmtIdle

InitFramer == FramerInit /\ PidInit /\ PsiInit /\ DemuxInit /\ QueueInit /\ PipeIdle /\ CallInit
                /\ stats = ZeroStats

NextFramer == \E n \in ChunkSizes(Len(Stream) - pushed) : Push(n)

SpecFramer == InitFramer /\ [][NextFramer]_vars

InitPid == FramerIdle /\ PidInit /\ PsiInit /\ DemuxInit /\ QueueInit /\ PipeIdle /\ CallInit
                /\ stats = ZeroStats

NextPid == \E pkt \in PidPackets : ParsePkt(pkt)

SpecPid == InitPid /\ [][NextPid]_vars

InitPsi ==
  /\ FramerIdle
  /\ PidInit
  /\ psi_input \in PsiInputs
  /\ PsiNew
  /\ DemuxInit
  /\ QueueInit /\ PipeIdle /\ CallInit
  /\ stats = ZeroStats

NextPsi == \E n \in 1 .. Len(psi_input) : OnPkt(n)

SpecPsi == InitPsi /\ [][NextPsi]_vars

InitPsiFeed == FramerIdle /\ PidInit /\ PsiInit /\ DemuxInit /\ QueueInit /\ PipeIdle /\ CallInit
                /\ stats = ZeroStats

NextPsiFeed == \E pkt \in FeedPackets : FeedPkt(pkt)

SpecPsiFeed == InitPsiFeed /\ [][NextPsiFeed]_vars

InitPsiPid == FramerIdle /\ PidInit /\ PsiInit /\ DemuxInit /\ QueueInit /\ PipeIdle /\ CallInit
                /\ stats = ZeroStats

NextPsiPid == \E pkt \in PsiPidPackets : RoutePsiPkt(pkt)

SpecPsiPid == InitPsiPid /\ [][NextPsiPid]_vars

InitDemux == FramerIdle /\ PidInit /\ PsiInit /\ DemuxInit /\ QueueInit /\ PipeIdle /\ CallInit
                /\ stats = ZeroStats

NextDemux ==
  \/ \E psi \in PatSections : RoutePatPkt(psi)
  \/ \E pkt \in RoutedPackets : RoutePkt(pkt)
  \/ DemuxerParse
  \/ \E n \in ProgramNumbers : EnableProgram(n)

SpecDemux == InitDemux /\ [][NextDemux]_vars

InitQueue == FramerIdle /\ PidInit /\ PsiInit /\ DemuxInit /\ QueueInit /\ PipeIdle /\ CallInit
                /\ stats = ZeroStats

NextQueue ==
  \/ \E bytes \in QueueData : QueueWrite(bytes)
  \/ \E n \in QueuePops : QueuePop(n)

SpecQueue == InitQueue /\ [][NextQueue]_vars

InitDecode ==
  /\ FramerIdle /\ PidInit /\ PsiInit /\ DemuxInit /\ QueueInit /\ PipeIdle /\ PmtIdle
  /\ stats = ZeroStats
  /\ decode_input \in DecodeInputs
  /\ decode_result = <<>>

NextDecode == Decode

SpecDecode == InitDecode /\ [][NextDecode]_vars

InitPmt ==
  /\ FramerIdle /\ PidInit /\ PsiInit /\ DemuxInit /\ QueueInit /\ PipeIdle /\ DecodeIdle
  /\ stats = ZeroStats
  /\ pmt_input \in SeqsUpTo(PmtEntries, MaxStreams)
  /\ pmt_result = <<>>

NextPmt == ParsePmt

SpecPmt == InitPmt /\ [][NextPmt]_vars

InitPipe ==
  /\ FramerIdle /\ PidInit /\ PsiInit /\ DemuxInit /\ QueueInit /\ CallInit
  /\ stats = ZeroStats
  /\ pipe_input \in PipeInputs
  /\ PipeNew

NextPipe ==
  \/ DemuxerParsePanics
  \/ DemuxerParseSome
  \/ \E n \in ReadSizes(Len(pipe_input) - pushed) : DemuxerParseRead(n)
  \/ DemuxerParseEof

SpecPipe == InitPipe /\ [][NextPipe]_vars

-----------------------------------------------------------------------------
(* Properties of the framer, checked under SpecFramer *)

\* the stream is a concatenation of well-formed packets and nothing else
WellFormedStream ==
  /\ tail = <<>>
  /\ \A i \in 1 .. Len(segs) : segs[i] \in {"V", "N"}

\* delivered holds exactly the packets of the segments lo .. Len(segs) that
\* were pushed completely, once each, in stream order, each the window of
\* the stream at its segment's offset
DeliveredAreSegs(lo) ==
  LET done == {i \in lo .. Len(segs) : SegStart(segs, i) + PACKET_SIZE <= pushed}
  IN /\ Len(delivered) = Cardinality(done)
     /\ \A k \in 1 .. Len(delivered) :
          /\ lo + k - 1 \in done
          /\ delivered[k].at = SegStart(segs, lo + k - 1)
          /\ delivered[k].pkt.raw_data = SegBytes(segs[lo + k - 1], lo + k - 1)

\* i is a resync candidate of the view of len bytes that starts at offset
\* start of the byte sequence st
Candidate(st, start, len, i) ==
  /\ st[start + i + 1] = HEADER_SYNC_WORD
  /\ \A j \in {1, 2, 3} :
       i + j * PACKET_SIZE < len
         => st[start + i + j * PACKET_SIZE + 1] = HEADER_SYNC_WORD

\* C1: a stream of k >= 1 well-formed packets, pushed in any chunking: after
\* every call the call has returned, each packet pushed completely has been
\* delivered exactly once and in input order, and unsynchronized_bytes and
\* malformed_ts_packets are 0.
C1_WellFormedDelivered ==
  WellFormedStream =>
    /\ ~panicked
    /\ DeliveredAreSegs(1)
    /\ stats.unsynchronized_bytes = 0
    /\ stats.malformed_ts_packets = 0

\* C2 as stated: once a call has returned (the framer has drained),
\* unsynchronized_bytes + 188 * delivered + malformed_ts_packets <= bytes
\* pushed.
C2_CountersBoundedWithMalformed ==
  ~panicked =>
    stats.unsynchronized_bytes + PACKET_SIZE * Len(delivered)
      + stats.malformed_ts_packets <= pushed

\* C2 amended: unsynchronized_bytes + 188 * delivered <= bytes pushed; the
\* byte dropped for a malformed packet is already in unsynchronized_bytes.
C2_CountersBounded ==
  stats.unsynchronized_bytes + PACKET_SIZE * Len(delivered) <= pushed

\* C2 witness: a drained framer that dropped a malformed packet, skipped
\* bytes and delivered a packet.
C2_Witness ==
  /\ ~panicked
  /\ pushed = Len(Stream)
  /\ stats.malformed_ts_packets >= 1
  /\ stats.unsynchronized_bytes > 1
  /\ Len(delivered) >= 1

\* the resync step of C3: when the view held a candidate, synchronize took
\* the smallest one, added it to unsynchronized_bytes, popped that many
\* bytes and set synchronized
ResyncStep ==
  LET st == Stream
  IN (last_sync.called
        /\ \E i \in 0 .. last_sync.len - 1 :
             Candidate(st, last_sync.start, last_sync.len, i))
     => /\ last_sync.found
        /\ Candidate(st, last_sync.start, last_sync.len, last_sync.idx)
        /\ \A i \in 0 .. last_sync.idx - 1 :
             ~Candidate(st, last_sync.start, last_sync.len, i)
        /\ last_sync.unsync_after = last_sync.unsync_before + last_sync.idx
        /\ last_sync.head_after = last_sync.start + last_sync.idx
        /\ last_sync.sync_after

\* the stream is the garbage run followed by aligned well-formed packets
GarbageThenPackets ==
  /\ Len(segs) >= 2
  /\ segs[1] = "G"
  /\ \A i \in 2 .. Len(segs) : segs[i] \in {"V", "N"}
  /\ tail = <<>>

\* the consequence C3 draws: the garbage prefix held no candidate when the
\* framer resynchronized, so after every call all packets pushed completely
\* are delivered and unsynchronized_bytes is the length of the garbage
ResyncConsequence ==
  (/\ GarbageThenPackets
   /\ last_sync.called
   /\ last_sync.start = 0
   /\ \A i \in 0 .. Len(Garbage) - 1 :
        ~Candidate(Stream, 0, last_sync.len, i))
  => /\ ~panicked
     /\ DeliveredAreSegs(2)
     /\ stats.unsynchronized_bytes = Len(Garbage)

\* C3: resync selects the smallest candidate index i, adds i to
\* unsynchronized_bytes, pops i bytes and sets synchronized; so g garbage
\* bytes without a candidate, then aligned packets, give all packets
\* delivered and unsynchronized_bytes = g.
C3_ResyncSmallestIndex == ResyncStep /\ ResyncConsequence

\* the failed round of C4: one byte popped, both counters up by one, nothing
\* delivered at that offset, synchronized cleared
MalformedStep ==
  last_bad.called =>
    /\ last_bad.head_after = last_bad.head_before + 1
    /\ last_bad.len_after = last_bad.len_before - 1
    /\ last_bad.stats_after.malformed_ts_packets
         = last_bad.stats_before.malformed_ts_packets + 1
    /\ last_bad.stats_after.unsynchronized_bytes
         = last_bad.stats_before.unsynchronized_bytes + 1
    /\ ~last_bad.sync_after
    /\ \A k \in 1 .. Len(delivered) : delivered[k].at # last_bad.head_before

\* the stream is one malformed packet followed by aligned well-formed packets
MalformedThenPackets ==
  /\ Len(segs) >= 2
  /\ segs[1] = "M"
  /\ \A i \in 2 .. Len(segs) : segs[i] \in {"V", "N"}
  /\ tail = <<>>

\* the consequence C4 draws: the framer resynchronizes and the aligned
\* packets after the malformed one are still delivered
MalformedConsequence ==
  MalformedThenPackets => ~panicked /\ DeliveredAreSegs(2)

\* C4: a synchronized framer whose next 188 bytes do not decode delivers
\* nothing, pops exactly 1 byte, adds 1 to malformed_ts_packets and to
\* unsynchronized_bytes, clears synchronized, and resynchronizes so that
\* later aligned valid packets are still delivered.
C4_MalformedRoundResyncs == MalformedStep /\ MalformedConsequence

\* C5: every call of push returns, and when it has returned fewer than 188
\* unread bytes are left in the queue.
C5_PushDrains == ~panicked /\ QLen(byte_queue) < PACKET_SIZE

\* C25: every packet handed to the sink is a window of 188 bytes of the
\* bytes pushed, and its first byte is 0x47.
C25_DeliveredStartWithSync ==
  \A k \in 1 .. Len(delivered) :
    LET d == delivered[k]
    IN /\ Len(d.pkt.raw_data) = PACKET_SIZE
       /\ d.pkt.raw_data[1] = HEADER_SYNC_WORD
       /\ d.at + PACKET_SIZE <= pushed
       /\ d.pkt.raw_data = SubSeq(Stream, d.at + 1, d.at + PACKET_SIZE)

\* two packets were delivered and then the synchronized framer refused the
\* window that followed them, which holds no 0x47 at all
C25_Witness ==
  /\ segs = <<"V", "V", "J">>
  /\ Len(delivered) = 2
  /\ stats.malformed_ts_packets = 1

-----------------------------------------------------------------------------
(* Properties of the continuity controller, checked under SpecPid *)

\* the packet handed to the controller in this step
ThisPkt == pid_in'[Len(pid_in')]

\* this step is a call of parse_pkt
IsParsePkt == Len(pid_in') = Len(pid_in) + 1

\* the counters of the controller other than the two it owns never move
DupAndErrorsUnchanged ==
  /\ stats'.duplicate_ts_packets = stats.duplicate_ts_packets
  /\ stats'.continuity_counter_errors = stats.continuity_counter_errors

\* the packet is handed on, alone, and becomes the stored counter
DeliveredNormally(c, pkt, c1) ==
  /\ c1.out = Append(c.out, TsPacketEvent(pkt))
  /\ c1.stats = c.stats
  /\ c1.continuity_counter = Some(pkt.continuity_counter)

\* the controller as it is after this step
After == [continuity_counter |-> continuity_counter', stats |-> stats',
          out |-> pid_out']

\* C6: a payload-carrying packet whose counter equals the stored counter
\* adds 1 to duplicate_ts_packets, is not delivered, emits no Reset, leaves
\* continuity_counter_errors and the stored counter alone; a further copy is
\* dropped in the same way and the packet with counter (stored+1) mod 16 is
\* then delivered normally.
C6_DuplicateDropped ==
  [][(/\ IsParsePkt
      /\ Len(ThisPkt.payload) > 0
      /\ continuity_counter.some
      /\ ThisPkt.continuity_counter = continuity_counter.v)
     => /\ stats'.duplicate_ts_packets = stats.duplicate_ts_packets + 1
        /\ stats'.continuity_counter_errors = stats.continuity_counter_errors
        /\ pid_out' = pid_out
        /\ continuity_counter' = continuity_counter
        /\ LET again == parse_pkt(After, ThisPkt)
           IN /\ again.out = pid_out
              /\ again.continuity_counter = continuity_counter
              /\ again.stats.duplicate_ts_packets
                   = stats.duplicate_ts_packets + 2
        /\ \A pl \in Payloads \ {<<>>} :
             LET nxt == [continuity_counter |->
                           (continuity_counter.v + 1) % 16,
                         payload |-> pl]
             IN DeliveredNormally(After, nxt, parse_pkt(After, nxt))]_vars

\* C6 witness: a packet was delivered, two copies of it were dropped, and
\* its successor was delivered.
C6_Witness ==
  /\ Len(pid_in) = 4
  /\ Len(pid_in[1].payload) > 0
  /\ pid_in[2] = pid_in[1]
  /\ pid_in[3] = pid_in[1]
  /\ pid_in[4].continuity_counter = (pid_in[1].continuity_counter + 1) % 16
  /\ Len(pid_in[4].payload) > 0
  /\ stats.duplicate_ts_packets = 2
  /\ pid_out = <<TsPacketEvent(pid_in[1]), TsPacketEvent(pid_in[4])>>

\* C7: a payload-carrying packet whose counter is neither the stored counter
\* nor (stored+1) mod 16 adds exactly 1 to continuity_counter_errors, hands
\* exactly one Reset downstream and then the packet, and makes the packet's
\* counter the stored one, so that its in-sequence successor is delivered
\* with no further error.
C7_DiscontinuityResets ==
  [][(/\ IsParsePkt
      /\ Len(ThisPkt.payload) > 0
      /\ continuity_counter.some
      /\ ThisPkt.continuity_counter # continuity_counter.v
      /\ ThisPkt.continuity_counter # (continuity_counter.v + 1) % 16)
     => /\ stats'.continuity_counter_errors
             = stats.continuity_counter_errors + 1
        /\ stats'.duplicate_ts_packets = stats.duplicate_ts_packets
        /\ pid_out' = pid_out \o <<Reset, TsPacketEvent(ThisPkt)>>
        /\ continuity_counter' = Some(ThisPkt.continuity_counter)
        /\ \A pl \in Payloads \ {<<>>} :
             LET nxt == [continuity_counter |->
                           (ThisPkt.continuity_counter + 1) % 16,
                         payload |-> pl]
             IN DeliveredNormally(After, nxt, parse_pkt(After, nxt))]_vars

\* C7 witness: a discontinuity was met, Reset precedes the packet, and the
\* successor followed without another error.
C7_Witness ==
  /\ Len(pid_in) = 3
  /\ \A i \in 1 .. 3 : Len(pid_in[i].payload) > 0
  /\ pid_in[2].continuity_counter
       \notin {pid_in[1].continuity_counter,
               (pid_in[1].continuity_counter + 1) % 16}
  /\ pid_in[3].continuity_counter = (pid_in[2].continuity_counter + 1) % 16
  /\ stats.continuity_counter_errors = 1
  /\ pid_out = <<TsPacketEvent(pid_in[1]), Reset, TsPacketEvent(pid_in[2]),
                 TsPacketEvent(pid_in[3])>>

\* every packet so far carried payload and followed its predecessor
InSequence ==
  /\ \A i \in 1 .. Len(pid_in) : Len(pid_in[i].payload) > 0
  /\ \A i \in 2 .. Len(pid_in) :
       pid_in[i].continuity_counter
         = (pid_in[i - 1].continuity_counter + 1) % 16

\* C8: a sequence of payload-carrying packets whose counters each equal
\* (previous + 1) mod 16, the wrap 15 -> 0 included, from any first value,
\* is delivered completely and in order with continuity_counter_errors = 0,
\* duplicate_ts_packets = 0 and no Reset.
C8_InSequenceDelivered ==
  InSequence =>
    /\ pid_out = [i \in 1 .. Len(pid_in) |-> TsPacketEvent(pid_in[i])]
    /\ stats.continuity_counter_errors = 0
    /\ stats.duplicate_ts_packets = 0

\* C8 witness: the counters 14, 15, 0, 1 were delivered.
C8_Witness ==
  /\ InSequence
  /\ Len(pid_in) = 4
  /\ pid_in[1].continuity_counter = 14
  /\ pid_in[3].continuity_counter = 0
  /\ Len(pid_out) = 4

\* C9: a packet with empty payload is always delivered and leaves the
\* stored counter, duplicate_ts_packets and continuity_counter_errors as
\* they were, whatever its counter; no Reset is produced.
C9_EmptyPayloadPassesThrough ==
  [][(IsParsePkt /\ Len(ThisPkt.payload) = 0)
     => /\ pid_out' = Append(pid_out, TsPacketEvent(ThisPkt))
        /\ continuity_counter' = continuity_counter
        /\ DupAndErrorsUnchanged]_vars

\* C9 witness: an empty packet arrived with the stored counter's value and
\* another with an out-of-sequence value; both were delivered.
C9_Witness ==
  /\ Len(pid_in) = 3
  /\ Len(pid_in[1].payload) > 0
  /\ pid_in[2].payload = <<>>
  /\ pid_in[2].continuity_counter = pid_in[1].continuity_counter
  /\ pid_in[3].payload = <<>>
  /\ pid_in[3].continuity_counter
       \notin {pid_in[1].continuity_counter,
               (pid_in[1].continuity_counter + 1) % 16}
  /\ Len(pid_out) = 3
  /\ continuity_counter = Some(pid_in[1].continuity_counter)

-----------------------------------------------------------------------------
(* Properties of the PSI reassembler, checked under SpecPsi *)

\* what the handler is given when psi_input arrives in one payload_start
\* packet
SinglePacket ==
  PsiParser_on_pkt(NewPsiParser,
                   [payload |-> psi_input, payload_start |-> TRUE]).sections

\* the bytes of psi_input behind the pointer_field-skipped bytes and the
\* 3-byte header and before the 4-byte CRC, as section_length places them
Body ==
  LET at == psi_input[1] + 2
      section_len == (psi_input[at + 1] * 256 + psi_input[at + 2]) % 4096
  IN SubSeq(psi_input, at + 3, at + 2 + section_len - 4)

\* all of psi_input has been fed, in two packets or more
SplitFed == PsiFed = Len(psi_input) /\ Len(psi_splits) >= 2

\* C10 as stated: a section split across consecutive packets at any split
\* points is delivered exactly once, with the same body bytes as when it
\* arrives in one packet.
C10_SplitAnywhereSameAsSingle ==
  SplitFed => sections = SinglePacket /\ sections = <<Body>>

\* C10 amended: the same, for split points that leave the pointer_field
\* byte and the bytes it skips in the first packet.
C10_SplitSameAsSingle ==
  (SplitFed /\ psi_splits[1] >= 1 + psi_input[1])
    => sections = SinglePacket /\ sections = <<Body>>

\* C10 witness: tests::PSI was fed in three packets, the section header
\* and the CRC both cut in two, and one section came out.
C10_Witness ==
  /\ SplitFed
  /\ psi_input[1] = 5
  /\ psi_splits = <<7, 10, 7>>
  /\ sections = <<Body>>

-----------------------------------------------------------------------------
(* Properties of the PSI reassembler fed packet by packet, checked under
   SpecPsiFeed *)

\* this step is a call of on_pkt, and the packet it was given
IsPsiOnPkt == Len(psi_in') = Len(psi_in) + 1
ThisPsiPkt == psi_in'[Len(psi_in')]

\* the call goes past the mid-stream entry test
PsiTaken == started \/ ThisPsiPkt.payload_start

\* the payload_start packet passes the pointer_field tests
PointerOk ==
  ThisPsiPkt.payload_start =>
    /\ Len(ThisPsiPkt.payload) >= 1
    /\ ThisPsiPkt.payload[1] <= Len(ThisPsiPkt.payload) - 1

\* the section bytes accumulated once this packet's payload is appended
Accumulated ==
  IF ThisPsiPkt.payload_start
  THEN SubSeq(ThisPsiPkt.payload, ThisPsiPkt.payload[1] + 2,
              Len(ThisPsiPkt.payload))
  ELSE data \o ThisPsiPkt.payload

AccSectionLen == (Accumulated[2] * 256 + Accumulated[3]) % 4096

\* a section of the handler's table_id and of legal length is fully there
FullyAccumulated ==
  /\ IsPsiOnPkt /\ PsiTaken /\ PointerOk
  /\ Len(Accumulated) >= 3
  /\ Accumulated[1] = TABLE_ID
  /\ AccSectionLen <= MAX_SECTION_LEN
  /\ Len(Accumulated) >= AccSectionLen + 3

AccSection == SubSeq(Accumulated, 1, AccSectionLen + 3)

\* C11: a fully accumulated section (matching table_id, section_len <=
\* 1021) is delivered if and only if the CRC-32/MPEG-2 of its bytes
\* [0, psi_len) is 0; when the CRC is not 0, psi_crc_errors grows by 1 and
\* nothing is delivered.
C11_DeliveredIffCrcZero ==
  [][FullyAccumulated =>
       IF mpeg2(AccSection) = {}
       THEN /\ sections'
                 = Append(sections, SubSeq(AccSection, 4, Len(AccSection) - 4))
            /\ stats'.psi_crc_errors = stats.psi_crc_errors
       ELSE /\ sections' = sections
            /\ stats'.psi_crc_errors = stats.psi_crc_errors + 1]_vars

\* C11 witness: a section with a wrong CRC was counted and dropped, then a
\* section completed by a second packet was delivered.
C11_Witness ==
  /\ Len(psi_in) = 3
  /\ psi_in[1] = PsiPkt(TRUE, 0, <<0>> \o BadCrcSection)
  /\ psi_in[3] = PsiPkt(FALSE, 0, SubSeq(Section, 7, Len(Section)))
  /\ stats.psi_crc_errors = 1
  /\ sections = <<SubSeq(Section, 4, 10)>>

\* the reassembler as it is after this step
PsiAfter ==
  [data |-> data', started |-> started', stats |-> stats',
   sections |-> sections', panicked |-> psi_panicked']

\* the step fails: the pointer_field is missing or points beyond the
\* payload, or the accumulated bytes have another table_id, a section_len
\* above 1021, or are a whole section whose CRC is not 0
PsiStepFails ==
  /\ IsPsiOnPkt /\ PsiTaken
  /\ IF ~PointerOk THEN TRUE
     ELSE /\ Len(Accumulated) >= 3
          /\ \/ Accumulated[1] # TABLE_ID
             \/ AccSectionLen > MAX_SECTION_LEN
             \/ /\ Len(Accumulated) >= AccSectionLen + 3
                /\ mpeg2(AccSection) # {}

\* a payload_start packet with a valid section is delivered normally from
\* the reassembler p
ValidSectionDelivered(p) ==
  LET q == PsiParser_on_pkt(p, PsiPkt(TRUE, 0, <<0>> \o Section))
  IN /\ q.sections = Append(p.sections, SubSeq(Section, 4, 10))
     /\ q.stats = p.stats
     /\ q.data = <<>>
     /\ ~q.started

\* C12: on every failure of the reassembler step invalid_psi grows by
\* exactly 1, the buffer is emptied, started becomes false, nothing is
\* delivered, and a following payload_start packet with a valid section is
\* delivered normally.
C12_FailureRearms ==
  [][PsiStepFails =>
       /\ stats'.invalid_psi = stats.invalid_psi + 1
       /\ data' = <<>>
       /\ started' = FALSE
       /\ sections' = sections
       /\ ValidSectionDelivered(PsiAfter)]_vars

\* C12 witness: a started section was spoilt by a continuation whose bytes
\* make the CRC wrong, and the valid section that followed was delivered.
C12_Witness ==
  /\ Len(psi_in) = 3
  /\ psi_in[1] = PsiPkt(TRUE, 0, <<0>> \o SubSeq(Section, 1, 6))
  /\ psi_in[2] = PsiPkt(FALSE, 0, <<0>> \o BadCrcSection)
  /\ psi_in[3] = PsiPkt(TRUE, 0, <<0>> \o Section)
  /\ stats.invalid_psi = 1
  /\ stats.psi_crc_errors = 1
  /\ sections = <<SubSeq(Section, 4, 10)>>

\* C13: a reassembler that is not started (initially, after a delivered
\* section, after a failure) and is given a packet without payload_start
\* adds exactly 1 to skipped_unstarted_psi_pkts, leaves invalid_psi, the
\* buffer and started as they were and delivers nothing; a later
\* payload_start packet with a valid section is still delivered.
C13_UnstartedSkipped ==
  [][(IsPsiOnPkt /\ ~started /\ ~ThisPsiPkt.payload_start) =>
       /\ stats'.skipped_unstarted_psi_pkts
            = stats.skipped_unstarted_psi_pkts + 1
       /\ stats'.invalid_psi = stats.invalid_psi
       /\ stats'.psi_crc_errors = stats.psi_crc_errors
       /\ data' = data
       /\ started' = started
       /\ sections' = sections
       /\ ValidSectionDelivered(PsiAfter)]_vars

\* C13 witness: tests::not_started_middle; a packet without payload_start
\* was skipped after a delivered section and the next section was delivered.
C13_Witness ==
  /\ Len(psi_in) = 3
  /\ psi_in[1] = PsiPkt(TRUE, 0, <<0>> \o Section)
  /\ psi_in[2] = PsiPkt(FALSE, 0, <<255, 255, 255>>)
  /\ psi_in[3] = PsiPkt(TRUE, 0, <<0>> \o Section)
  /\ stats.skipped_unstarted_psi_pkts = 1
  /\ stats.invalid_psi = 0
  /\ Len(sections) = 2

-----------------------------------------------------------------------------
(* Properties of a PSI pid with its continuity counters, checked under
   SpecPsiPid *)

\* PidControl::parse_pkt, having stored the counter of packet i - 1, emits
\* a Reset for packet i
DiscontinuityAt(i) ==
  LET c == parse_pkt([continuity_counter |->
                        Some(psi_in[i - 1].continuity_counter),
                      stats |-> ZeroStats, out |-> <<>>],
                     psi_in[i])
  IN \E k \in 1 .. Len(c.out) : c.out[k] = Reset

\* C14: when the continuity controller of a PSI pid detects a discontinuity
\* while a section is partially accumulated, the partial section is
\* discarded: no delivered section is assembled from bytes received before
\* the discontinuity and bytes received after it.
C14_NoSectionAcrossDiscontinuity ==
  \A k \in 1 .. Len(section_spans) :
    \A i \in section_spans[k].first + 1 .. section_spans[k].last :
      ~DiscontinuityAt(i)

-----------------------------------------------------------------------------
(* Properties of the PAT parser and the demultiplexer, checked under
   SpecDemux *)

\* this step hands a section body to the PAT parser
IsPatSection ==
  /\ demux_ops' = demux_ops + 1
  /\ demux_last'.op = "pat_pkt"
  /\ 0 \in DOMAIN pids
  /\ pids[0].kind = "PAT"

\* the section bodies of PatSections that hold a whole PAT
ParsedPats == {ReadPat(psi) : psi \in {b \in PatSections : Len(b) >= 5}}

\* the number of Event::Pat that feeding the bodies of bodies in a row to a
\* new PatParser pushes
RECURSIVE FeedPats(_, _)
FeedPats(c, bodies) ==
  IF bodies = <<>> THEN Len(c.events)
  ELSE FeedPats(PatParser_on_psi(c, Head(bodies)), Tail(bodies))

NewPatContext == [current |-> None, events |-> <<>>, stats |-> ZeroStats]

\* C15: a step of the PAT parser pushes exactly one Event::Pat, carrying the
\* table it read, when it has emitted no table before or the table differs
\* from the one it emitted last, and pushes nothing otherwise; the table
\* emitted last is the cached one; the same body fed one to three times in a
\* row pushes one event, and A, B, A pushes three.
C15_PatEventIffChanged ==
  /\ [][IsPatSection =>
          \E psi \in PatSections :
            LET pat == ReadPat(psi)
                differs == ~pat_current.some \/ pat # pat_current.v
            IN IF Len(psi) >= 5 /\ differs
               THEN /\ events' = Append(events, PatEvent(pat))
                    /\ pat_current' = Some(pat)
               ELSE /\ events' = events
                    /\ pat_current' = pat_current
                    /\ Len(psi) >= 5 => pat_current' = Some(pat)]_vars
  /\ \A psi \in {b \in PatSections : Len(b) >= 5} :
       /\ \A k \in 1 .. 3 : FeedPats(NewPatContext, [i \in 1 .. k |-> psi]) = 1
       /\ \A other \in {b \in PatSections : Len(b) >= 5} :
            ReadPat(other) # ReadPat(psi)
              => FeedPats(NewPatContext, <<psi, other, psi>>) = 3

\* a table was emitted, and the same table parsed again pushed nothing
C15_Witness ==
  /\ demux_last.op = "pat_pkt"
  /\ pat_current.some
  /\ events = <<PatEvent(pat_current.v)>>
  /\ demux_ops = 2
  /\ stats = ZeroStats

\* C16: in every reachable state of the demultiplexer the pid table maps
\* pid 0 to the PAT handler.
C16_Pid0IsPatHandler ==
  /\ 0 \in DOMAIN pids
  /\ pids[0].kind = "PAT"

\* this step is Demuxer::parse giving the popped table to Demult::on_pat
IsOnPat ==
  /\ demux_ops' = demux_ops + 1
  /\ demux_last'.op = "parse"

\* the table given to on_pat by the step, and the numbers it lists
NewPat == demux_last'.pat.v
ListedNumbers == {NewPat.programs[i].number : i \in 1 .. Len(NewPat.programs)}

\* C17: after on_pat, no program tracked before whose number the new table
\* does not list is still tracked: the tracked numbers are listed ones.
C17_AbsentProgramsDropped ==
  [][IsOnPat => DOMAIN programs' \subseteq ListedNumbers]_vars

\* the tracked programs that the table given to on_pat lists with another pid
Moved ==
  {n \in DOMAIN programs \cap ListedNumbers :
     programs[n].program_info.pid # ValidPrograms(NewPat)[n].pid}

\* after on_pat no handler is left on the old pid of a moved program nor on
\* a stream pid of its pmt, and the program is tracked afresh with its new pid
MovedTrackedAfresh ==
  \A n \in Moved :
    /\ ProgramPids(programs[n]) \cap DOMAIN pids' = {}
    /\ n \in DOMAIN programs'
    /\ programs'[n] = NewProgram(ValidPrograms(NewPat)[n])

\* after on_pat the new pid of a moved program has no PMT handler
NoPmtHandlerOnNewPid ==
  \A n \in Moved :
    LET pid == ValidPrograms(NewPat)[n].pid
    IN ~(pid \in DOMAIN pids' /\ pids'[pid].kind = "PMT")

\* C18 as stated: a tracked program listed with another pid loses the
\* handlers on its old pid and on its pmt's stream pids, is tracked afresh
\* with the new pid, pmt None and enabled false, and the new pid has no PMT
\* handler.
C18_MovedProgramHasNoHandler ==
  [][IsOnPat => MovedTrackedAfresh /\ NoPmtHandlerOnNewPid]_vars

\* after on_pat the new pid of a moved program has a handler only if it had
\* that handler before
NoHandlerInstalledOnNewPid ==
  \A n \in Moved :
    LET pid == ValidPrograms(NewPat)[n].pid
    IN pid \in DOMAIN pids' => pid \in DOMAIN pids /\ pids'[pid] = pids[pid]

\* C18: a tracked program listed with another pid loses the handlers on its
\* old pid and on its pmt's stream pids and is tracked afresh with the new
\* pid, pmt None and enabled false; on_pat installs no handler on the new
\* pid, which has one afterwards only if it had it before (that of another
\* enabled program with the same pid).
C18_MovedProgramTrackedAfresh ==
  [][IsOnPat => MovedTrackedAfresh /\ NoHandlerInstalledOnNewPid]_vars

\* on_pat moved an enabled program whose handler was mapped: the handler is
\* gone and the program is tracked, not enabled, with another pid
C18_Witness ==
  /\ demux_last.op = "parse"
  /\ \E n \in DOMAIN demux_last.before.programs :
       LET old == demux_last.before.programs[n]
       IN /\ old.enabled
          /\ old.program_info.pid \in DOMAIN demux_last.before.pids
          /\ old.program_info.pid \notin DOMAIN pids
          /\ n \in DOMAIN programs
          /\ programs[n].program_info.pid # old.program_info.pid
          /\ ~programs[n].enabled

\* the numbers the table given to on_pat lists that are not tracked, and the
\* tracked programs it lists with the pid they have
Untracked == ListedNumbers \ DOMAIN programs
Unmoved ==
  {n \in DOMAIN programs \cap ListedNumbers :
     programs[n].program_info.pid = ValidPrograms(NewPat)[n].pid}

\* C19: on_pat tracks every listed number that was not tracked as a Program
\* with pmt None and enabled false and maps no handler on its pid; a tracked
\* program listed with the pid it has keeps its enabled flag and its pmt, and
\* when it is enabled its pid keeps the handler it had.
C19_UntrackedInsertedUnmovedKept ==
  [][IsOnPat =>
       /\ \A n \in Untracked :
            LET info == ValidPrograms(NewPat)[n]
            IN /\ n \in DOMAIN programs'
               /\ programs'[n] = NewProgram(info)
               /\ info.pid \in DOMAIN pids'
                    => info.pid \in DOMAIN pids /\ pids'[info.pid] = pids[info.pid]
       /\ \A n \in Unmoved :
            LET pid == programs[n].program_info.pid
            IN /\ n \in DOMAIN programs'
               /\ programs'[n] = programs[n]
               /\ programs[n].enabled /\ pid \in DOMAIN pids
                    => pid \in DOMAIN pids' /\ pids'[pid] = pids[pid]]_vars

\* this step is enable_program
IsEnableProgram ==
  /\ demux_ops' = demux_ops + 1
  /\ demux_last'.op = "enable_program"

\* C20: enable_program of a number that is not tracked returns
\* InvalidProgramNumber and leaves the programs table, the pid table, the
\* stats and the event queue as they were.
C20_UntrackedNumberRejected ==
  [][IsEnableProgram /\ demux_last'.number \notin DOMAIN programs =>
       /\ demux_last'.ret = InvalidProgramNumber
       /\ programs' = programs
       /\ pids' = pids
       /\ stats' = stats
       /\ events' = events]_vars

\* enable_program has rejected a number while another program was tracked
\* and enabled
C20_Witness ==
  /\ demux_last.op = "enable_program"
  /\ demux_last.ret = InvalidProgramNumber
  /\ demux_last.number \notin DOMAIN programs
  /\ \E n \in DOMAIN programs : programs[n].enabled

-----------------------------------------------------------------------------
(* Properties of the byte queue, checked under SpecQueue *)

\* this step is a call of pop, of write
IsQueuePop == queue_last'.count = queue_last.count + 1 /\ queue_last'.op = "pop"
IsQueueWrite ==
  queue_last'.count = queue_last.count + 1 /\ queue_last'.op = "write"

\* s without its first n elements
Drop(s, n) == SubSeq(s, n + 1, Len(s))

\* C29: pop(n) with 0 <= n <= unread length, n = unread length included, is
\* carried out: it takes the first n bytes off the view and adds n to the
\* count of consumed bytes; the read offset is always within the buffer and
\* the view's length is the buffer's length less the offset.
C29_PopUpToUnreadLen ==
  /\ [][IsQueuePop /\ queue_last'.n <= QLen(byte_queue) =>
          /\ ~panicked'
          /\ View(byte_queue') = Drop(View(byte_queue), queue_last'.n)
          /\ byte_queue'.head = byte_queue.head + queue_last'.n]_vars
  /\ [](/\ 0 <= byte_queue.offset
        /\ byte_queue.offset <= Len(byte_queue.buf)
        /\ Len(View(byte_queue)) = Len(byte_queue.buf) - byte_queue.offset)

\* C30: write(data) makes the view the view before followed by data and
\* leaves the count of consumed bytes alone, whether it compacts or not; the
\* view is always what was written without the bytes popped.
C30_WriteAppendsToView ==
  /\ [][IsQueueWrite =>
          \E bytes \in QueueData :
            /\ Len(bytes) = queue_last'.n
            /\ queue_written' = queue_written \o bytes
            /\ View(byte_queue') = View(byte_queue) \o bytes
            /\ byte_queue'.head = byte_queue.head]_vars
  /\ [](View(byte_queue) = Drop(queue_written, byte_queue.head))

\* a write, a pop of some bytes, and a write that compacted the buffer: the
\* offset is back to 0 and the buffer holds less than what was written
C30_Witness ==
  /\ queue_last.op = "write"
  /\ queue_last.count = 3
  /\ byte_queue.head > 0
  /\ byte_queue.offset = 0
  /\ Len(byte_queue.buf) < Len(queue_written)
  /\ View(byte_queue) # <<>>

-----------------------------------------------------------------------------
(* Properties of the packet decoder, checked under SpecDecode *)

\* the fields of the header of the packet given to parse_packet
DecodeAfc == (decode_input[4] \div 16) % 4
DecodeHasField == DecodeAfc \in {2, 3}
DecodeHasPayload == DecodeAfc \in {1, 3}
DecodeFieldLen == decode_input[5]

\* the bytes that remain after the byte of adaptation_field_len
DecodeRemaining == PACKET_SIZE - 5

\* parse_packet has returned
Decoded == decode_result # <<>>

\* C26: a packet with an adaptation field is accepted exactly when it has no
\* payload and adaptation_field_len is the number of bytes that remain, or it
\* has a payload and adaptation_field_len is less than that number; in the
\* first case the payload is empty.
C26_AdaptationFieldLenAccepted ==
  Decoded /\ decode_input[1] = HEADER_SYNC_WORD /\ DecodeHasField =>
    LET r == decode_result[1]
        whole == ~DecodeHasPayload /\ DecodeFieldLen = DecodeRemaining
        part == DecodeHasPayload /\ DecodeFieldLen < DecodeRemaining
    IN /\ r.some <=> (whole \/ part)
       /\ whole => Payload(r) = <<>>
       /\ part => Payload(r) = SubSeq(decode_input, 6 + DecodeFieldLen, PACKET_SIZE)

\* tests::pkt_no_payload: no payload, the field fills the packet, accepted
C26_Witness ==
  /\ Decoded
  /\ decode_input[1] = HEADER_SYNC_WORD
  /\ DecodeAfc = 2
  /\ DecodeFieldLen = DecodeRemaining
  /\ decode_result[1].some
  /\ decode_result[1].payload_len = 0

\* what PidControl::parse_pkt does with the decoded packet r when the counter
\* it has stored is cc
ControlAfter(r, cc) ==
  parse_pkt([continuity_counter |-> cc, stats |-> ZeroStats, out |-> <<>>],
            [continuity_counter |-> r.continuity_counter,
             payload |-> Payload(r)])

\* C27: a packet with adaptation_field_control = 00 is decoded with an empty
\* payload and nothing read from an adaptation field, and the continuity
\* controller neither updates nor checks its counter for it.
C27_AfcZeroHasNoPayload ==
  Decoded /\ decode_input[1] = HEADER_SYNC_WORD /\ DecodeAfc = 0 =>
    LET r == decode_result[1]
    IN /\ r.some
       /\ Payload(r) = <<>>
       /\ ~r.discontinuity /\ ~r.random_access /\ ~r.has_pcr
       /\ \A cc \in {None} \cup {Some(v) : v \in 0 .. 15} :
            /\ ControlAfter(r, cc).continuity_counter = cc
            /\ ControlAfter(r, cc).stats = ZeroStats

-----------------------------------------------------------------------------
(* Properties of the PMT parser, checked under SpecPmt *)

\* C28: for a body of k well-formed stream entries the parsed table has k
\* streams in the order of the section, the i-th (from 0) with index i and
\* the pid and stream_type of the i-th entry: no descriptor byte is taken
\* for a stream entry.
C28_StreamsAreEntries ==
  pmt_result # <<>> =>
    LET r == pmt_result[1]
    IN /\ r.ok
       /\ Len(r.pmt.streams) = Len(pmt_input)
       /\ \A i \in 1 .. Len(pmt_input) :
            /\ r.pmt.streams[i].index = i - 1
            /\ r.pmt.streams[i].pid = pmt_input[i].pid
            /\ r.pmt.streams[i].stream_type = pmt_input[i].stream_type

\* C21: enable_program of a tracked program returns Ok; when the program
\* was not enabled it sets enabled and boxes a new PMT reassembler on the
\* program's pid; when the program was enabled already it leaves the
\* programs table and the pid table, with what the parsers have reassembled
\* so far, as they were.
C21_EnableProgramIdempotent ==
  [][IsEnableProgram /\ demux_last'.number \in DOMAIN programs =>
       LET n == demux_last'.number
           pid == programs[n].program_info.pid
       IN /\ demux_last'.ret = Ok
          /\ programs'[n].enabled
          /\ stats' = stats /\ events' = events
          /\ IF programs[n].enabled
             THEN programs' = programs /\ pids' = pids
             ELSE /\ programs' = [programs EXCEPT ![n].enabled = TRUE]
                  /\ pids' = MapInsert(pids, pid, PmtHandler)]_vars

\* enable_program was called again for an enabled program while the parser
\* on its pid held the first bytes of a section, and the parser still holds
\* them
C21_Witness ==
  /\ demux_last.op = "enable_program"
  /\ demux_last.ret = Ok
  /\ LET n == demux_last.number
     IN /\ n \in DOMAIN demux_last.before.programs
        /\ demux_last.before.programs[n].enabled
        /\ LET pid == programs[n].program_info.pid
           IN /\ pid \in DOMAIN pids
              /\ pids[pid].kind = "PMT"
              /\ pids[pid].started
              /\ pids[pid].data = Tail(HeadPayload(2))

\* this step is Demult::on_pkt; the pid of its packet
IsRoute ==
  /\ demux_ops' = demux_ops + 1
  /\ demux_last'.op \in {"pkt", "pat_pkt"}
RoutedPid == demux_last'.number

\* the context that the handlers are given
DemuxContext == [current |-> pat_current, events |-> events, stats |-> stats]

\* C22: a packet whose pid has no entry in the pid table adds exactly 1 to
\* ignored_ts_packets and changes no handler, program or event; a packet
\* whose pid has an entry goes to the handler of that entry and to no other,
\* and ignored_ts_packets stays as it was.
C22_RoutedByPid ==
  [][IsRoute =>
       /\ programs' = programs
       /\ DOMAIN pids' = DOMAIN pids
       /\ \A pid \in DOMAIN pids \ {RoutedPid} : pids'[pid] = pids[pid]
       /\ IF RoutedPid \in DOMAIN pids
          THEN /\ stats'.ignored_ts_packets = stats.ignored_ts_packets
               /\ demux_last'.op = "pkt" =>
                    \E pkt \in RoutedPackets :
                      LET r == Handler_on_pkt(pids[RoutedPid], DemuxContext, pkt)
                      IN /\ pkt.pid = RoutedPid
                         /\ pids'[RoutedPid] = r.h
                         /\ stats' = r.c.stats
                         /\ events' = r.c.events
                         /\ pat_current' = r.c.current
          ELSE /\ stats' = [stats EXCEPT !.ignored_ts_packets = @ + 1]
               /\ pids' = pids
               /\ events' = events
               /\ pat_current' = pat_current]_vars

\* with the PAT parser on pid 0 and a PMT parser on pid 200, a packet on pid
\* 100 was ignored and then a packet on pid 200 started a section in the
\* parser on pid 200 only
C22_Witness ==
  /\ demux_last.op = "pkt"
  /\ demux_last.number = 200
  /\ DOMAIN pids = {0, 200}
  /\ pids[200].started
  /\ pids[0] = PatHandler
  /\ stats.ignored_ts_packets = 1

\* C23: a packet on the null pid 0x1FFF is dropped: it adds exactly 1 to
\* ignored_ts_packets and reaches no handler, whatever the PAT named as a
\* program pid and whichever programs were enabled.
C23_NullPidDropped ==
  [][IsRoute /\ RoutedPid = 8191 =>
       /\ stats' = [stats EXCEPT !.ignored_ts_packets = @ + 1]
       /\ pids' = pids
       /\ programs' = programs
       /\ events' = events
       /\ pat_current' = pat_current]_vars

-----------------------------------------------------------------------------
(* Properties of Demuxer::parse reading a stream, checked under SpecPipe *)

\* the events returned so far are the first of the events pushed, in the
\* order in which they were pushed, that order is the order of the
\* positions of their packets in the stream, and the events pushed and not
\* yet returned are the queue
ReturnedInOrder ==
  /\ Len(pipe_returned) <= Len(pipe_caused)
  /\ \A i \in 1 .. Len(pipe_returned) : pipe_returned[i] = pipe_caused[i].event
  /\ \A i, j \in 1 .. Len(pipe_caused) :
       i < j => pipe_caused[i].at <= pipe_caused[j].at
  /\ events = [i \in 1 .. Len(pipe_caused) - Len(pipe_returned) |->
                 pipe_caused[Len(pipe_returned) + i].event]

\* the calls of Demuxer::parse have come to an end: the latest returned
\* Ok(None), or panicked
PipeEnded == pipe_eof \/ panicked

\* every event pushed has been returned
AllReturned == Len(pipe_returned) = Len(pipe_caused)

\* C24: events are returned first-in first-out in the order of the stream
\* positions of the packets that caused them, none twice, and none is lost:
\* once the calls of Demuxer::parse on a stream have come to an end, every
\* event that was pushed has been returned.
C24_EventsReturnedFifo ==
  /\ ReturnedInOrder
  /\ PipeEnded => AllReturned

\* a stream read to its end without a panic: every event was returned
C24_NoneLostAtEof == pipe_eof => AllReturned

\* two events caused by two packets were returned in the order of the
\* packets, and the stream was read to its end
PipeTwoReturned ==
  /\ Len(pipe_returned) = 2
  /\ pipe_caused[1].at < pipe_caused[2].at
  /\ pipe_eof

-----------------------------------------------------------------------------
(* More properties of the PSI reassembler fed packet by packet, checked
   under SpecPsiFeed *)

\* a payload_start packet that passes the pointer_field tests reaches a
\* reassembler that holds a part of a section
RestartsMidSection ==
  /\ IsPsiOnPkt
  /\ started /\ data # <<>>
  /\ ThisPsiPkt.payload_start
  /\ PointerOk

\* the reassembler with the statistics and the deliveries of this state, but
\* holding nothing
HoldingNothing ==
  [data |-> <<>>, started |-> FALSE, stats |-> stats, sections |-> sections,
   panicked |-> FALSE]

\* C31: a payload_start packet that reaches a reassembler holding a part of
\* a section discards that part and starts at the pointer_field target: the
\* bytes in front of the target complete nothing, what is delivered or kept
\* comes from the bytes at the target only, invalid_psi grows only if those
\* bytes fail by themselves, and the reassembler ends as one that held
\* nothing would have.
C31_RestartDiscardsPartial ==
  [][RestartsMidSection =>
       /\ PsiAfter = PsiParser_on_pkt(HoldingNothing, ThisPsiPkt)
       /\ stats'.invalid_psi
            = stats.invalid_psi + (IF PsiStepFails THEN 1 ELSE 0)
       /\ IF FullyAccumulated /\ mpeg2(AccSection) = {}
          THEN sections'
                 = Append(sections, SubSeq(AccSection, 4, Len(AccSection) - 4))
          ELSE sections' = sections
       /\ (~PsiStepFails /\ ~FullyAccumulated) =>
            data' = Accumulated /\ started']_vars

\* C31 witness: the head of a section was held; the next payload_start
\* packet carried the rest of that section in front of the pointer_field
\* target and the head of a section at the target; only that head is held,
\* nothing was delivered and nothing counted as invalid.
C31_Witness ==
  /\ Len(psi_in) = 2
  /\ psi_in[1] = PsiPkt(TRUE, 0, <<0>> \o SubSeq(Section, 1, 6))
  /\ psi_in[2] = PsiPkt(TRUE, 0, <<8>> \o SubSeq(Section, 7, Len(Section))
                                   \o SubSeq(Section, 1, 6))
  /\ data = SubSeq(Section, 1, 6)
  /\ started
  /\ sections = <<>>
  /\ stats.invalid_psi = 0

-----------------------------------------------------------------------------
(* The framer's calls of ByteQueue::pop, checked under SpecFramer *)

\* the pop of the resync index in the latest call of synchronize met the
\* assertion of pop: the index is below the number of unread bytes
ResyncPopAllowed ==
  (last_sync.called /\ last_sync.found) => last_sync.idx < last_sync.len

\* C32: for every byte stream and chunking, no call of ByteQueue::pop made by
\* the framer fails the assertion of pop: not the pop of a delivered packet,
\* with exactly 188 unread bytes or more, not the pop of the resync index,
\* not the pop of one byte after a failed decode.
C32_FramerPopsWithinAssertion ==
  /\ ~panicked
  /\ ResyncPopAllowed

-----------------------------------------------------------------------------
(* The enabled programs and the pid table, checked under SpecDemux *)

\* C33: in every reachable state of the demultiplexer every tracked program
\* with enabled = true has a PMT handler in the pid table at its
\* program_info.pid, also when programs share a PMT pid and when a program
\* that is removed had its PMT pid on the PMT pid of an enabled program.
C33_EnabledProgramHasPmtHandler ==
  \A n \in DOMAIN programs :
    programs[n].enabled =>
      /\ programs[n].program_info.pid \in DOMAIN pids
      /\ pids[programs[n].program_info.pid].kind = "PMT"

====
